---- MODULE Spec2Model ----
(***************************************************************************)
(* A model of the job-matching application: the results view's aggregator  *)
(* (frontend/app/results/page.tsx), the profile token built by the form    *)
(* (frontend/app/page.tsx) and decoded by the results view, and the three  *)
(* API routes (search-jobs, simplify-job, training-plan), and the location *)
(* input of the form with its debounced search.                            *)
(*                                                                         *)
(* Each part has its own specification over the shared variables; the      *)
(* variables of the other parts stay at their initial values.              *)
(***************************************************************************)
EXTENDS Integers, Sequences, FiniteSets, TLC

VARIABLES
  \* ---- results view (ResultsPage, fetchAll) ----
  profileOk,               \* profile !== null (useMemo, results/page.tsx:124)
  pc,                      \* position of fetchAll: idle, jobs, enrich, done
  exitVia,                 \* how fetchAll left its try block
  isMounted,               \* the effect's closure flag
  isLoading,               \* useState(false)
  error,                   \* useState<string | null>(null); "null" is null
  jobs,                    \* useState<JobListing[]>([]): the listing ids
  simplifiedDescriptions,  \* Record<id, SimplifiedJob>
  trainingPlans,           \* Record<id, TrainingPlan>
  simplifyCall,            \* per listing: state of the /api/simplify-job promise
  trainingCall,            \* per listing: state of the /api/training-plan promise
  \* ---- the form (Home) and the token it hands to the results view ----
  fName,                   \* the name input, a string
  fGender,                 \* the checked gender radio, "" when none
  fHomeless,               \* the checked homeless radio, "" when none
  fRace,                   \* the checked race checkboxes
  interests,               \* useState<string[]>([])
  disabilities,            \* useState<string[]>([])
  medicalConditions,       \* useState<string[]>([])
  location,                \* useState("")
  formErrors,              \* the keys of the errors state
  formIsLoading,           \* Home's isLoading state
  formPc,                  \* editing, waiting (the 1500 ms timer), navigated, threw
  origin,                  \* who wrote the URL: none, form, url
  dataParam,               \* searchParams.get("data") of the results view
  profile,                 \* the result of the results view's useMemo
  \* ---- the job-search adapter's parseModelResponse on its own ----
  content,                 \* the completion text handed to parseModelResponse
  parsedJobs,              \* its result, [done |-> FALSE] before the call
  \* ---- the three API routes ----
  req,                     \* the request a route handler was called with
  resp,                    \* the response it produced
  \* ---- the location input (LocationAutocomplete) ----
  searchQuery,             \* useState(value): the text of the input
  suggestions,             \* useState<string[]>([])
  acIsLoading,             \* LocationAutocomplete's isLoading state
  debounceTimerRef,        \* debounceTimerRef.current: a timer id, 0 is null
  timers,                  \* the timeouts that are scheduled and not yet fired
  nextTimerId,             \* the id the next setTimeout returns
  inFlight                 \* the search requests issued and not yet answered

viewVars == <<profileOk, pc, exitVia, isMounted, isLoading, error, jobs,
              simplifiedDescriptions, trainingPlans, simplifyCall, trainingCall>>

formVars == <<fName, fGender, fHomeless, fRace, interests, disabilities,
              medicalConditions, location, formErrors, formIsLoading, formPc>>

tokenVars == <<origin, dataParam, profile>>

parseVars == <<content, parsedJobs>>
routeVars == <<req, resp>>

autoVars == <<searchQuery, suggestions, acIsLoading, debounceTimerRef, timers,
              nextTimerId, inFlight>>

vars == <<viewVars, formVars, tokenVars, parseVars, routeVars, autoVars>>

\* What the actions of one part leave alone in the other parts.
outsideView == <<formVars, tokenVars, parseVars, routeVars, autoVars>>
outsideForm == <<viewVars, parseVars, routeVars, autoVars>>
outsideParse == <<viewVars, formVars, tokenVars, routeVars, autoVars>>
outsideRoutes == <<viewVars, formVars, tokenVars, parseVars, autoVars>>
outsideAuto == <<viewVars, tokenVars, parseVars, routeVars>>

(***************************************************************************)
(* Bounds                                                                  *)
(***************************************************************************)
\* Largest number of listings a job-search answer carries in the model.
MaxJobs == 3
\* Longest completion text enumerated token by token.
MaxContentLen == 4
\* Longest location string enumerated character by character.
MaxLocLen == 4
\* Largest number of debounce timers the location input schedules.
MaxTimers == 3
\* Largest rotation of the catalog among the shuffles drawn.
MaxShift == 2

(***************************************************************************)
(* Results view: fetchAll                                                  *)
(***************************************************************************)
EmptyMap == [k \in {} |-> "none"]

MapPut(m, k, v) == [x \in (DOMAIN m) \cup {k} |-> IF x = k THEN v ELSE m[x]]

\* The values the search-jobs route gives fallbackUsed in its 200 answers.
FallbackUsedValues == {FALSE}

\* What the job-search request can settle with: the fetch rejects, the body is
\* not JSON, or the body is one of the route's payloads.
\* sameKey: the ids of the last two listings are the same property key (the
\* route compares ids with ===, so it keeps both 1 and "1", and two ids {}).
JobsOutcomes ==
  [kind : {"netErr", "badJson"}, n : {0}, fallbackUsed : {FALSE}, sameKey : {FALSE}]
    \cup [kind : {"error", "errorEmptyJobs"}, n : {0}, fallbackUsed : {FALSE},
          sameKey : {FALSE}]
    \cup [kind : {"jobs"}, n : 0..MaxJobs, fallbackUsed : FallbackUsedValues,
          sameKey : BOOLEAN]

\* The property keys [job.id] of the n listings of a response, in order.
ListingKeys(n, sameKey) ==
  [i \in 1..n |-> IF sameKey /\ n > 1 /\ i = n THEN n - 1 ELSE i]

\* What one per-listing request can settle with.
CallOutcomes == {"ok", "notOk", "netErr", "badJson"}

\* The simplify chain: fetch(...).then(res => { if (!res.ok) throw ...; return res.json() })
\* "routeRecord" is the body the route answered with.
SimplifyResult(outcome) ==
  IF outcome = "ok" THEN "routeRecord" ELSE "rejected"

\* The training chain: a non-2xx answer and any rejection yield inline plans.
TrainingResult(outcome) ==
  CASE outcome = "ok"    -> "routeRecord"
    [] outcome = "notOk" -> "viewFallbackNotOk"
    [] OTHER             -> "viewFallbackCatch"

Listings == 1..Len(jobs)

CallPending(c) == c = "pending"
CallRejected(c) == c = "rejected"
CallFulfilled(c) == c \notin {"pending", "rejected"}

\* A continuation that runs as soon as the simplify call is fulfilled.
TaskFulfilledSimplifyOnly(sc, tc, i) == CallFulfilled(sc[i])

\* The async callback of foundJobs.map for listing i: its inner Promise.all
\* is fulfilled when both calls are.
TaskFulfilled(sc, tc, i) == CallFulfilled(sc[i]) /\ CallFulfilled(tc[i])
TaskRejected(sc, tc, i) == CallRejected(sc[i])

AnyCallPending ==
  \/ pc = "jobs"
  \/ \E i \in DOMAIN simplifyCall :
       CallPending(simplifyCall[i]) \/ CallPending(trainingCall[i])

ViewRest ==
  /\ pc = "idle"
  /\ exitVia = "none"
  /\ isMounted = FALSE
  /\ isLoading = FALSE
  /\ error = "null"
  /\ jobs = <<>>
  /\ simplifiedDescriptions = EmptyMap
  /\ trainingPlans = EmptyMap
  /\ simplifyCall = <<>>
  /\ trainingCall = <<>>

ViewInit == profileOk \in BOOLEAN /\ ViewRest

\* The results view as the other parts see it: not opened.
ViewOff == profileOk = FALSE /\ ViewRest

\* useEffect body without a profile: if (!profile) return; nothing is
\* started and no cleanup function is registered.
EffectWithoutProfile ==
  /\ pc = "idle"
  /\ ~profileOk
  /\ pc' = "skipped"
  /\ UNCHANGED <<profileOk, exitVia, isMounted, isLoading, error, jobs,
                 simplifiedDescriptions, trainingPlans, simplifyCall, trainingCall>>
  /\ UNCHANGED outsideView

\* The effect body without its early return.
EffectUnguarded ==
  /\ pc = "idle"
  /\ pc' = "jobs"
  /\ isMounted' = TRUE
  /\ isLoading' = TRUE
  /\ error' = "null"
  /\ UNCHANGED <<profileOk, exitVia, jobs, simplifiedDescriptions, trainingPlans,
                 simplifyCall, trainingCall>>
  /\ UNCHANGED outsideView

\* useEffect body with a profile: starts fetchAll, which runs up to its
\* first await.
Effect ==
  /\ pc = "idle"
  /\ profileOk
  /\ pc' = "jobs"
  /\ isMounted' = TRUE
  /\ isLoading' = TRUE
  /\ error' = "null"
  /\ UNCHANGED <<profileOk, exitVia, jobs, simplifiedDescriptions, trainingPlans,
                 simplifyCall, trainingCall>>
  /\ UNCHANGED outsideView

\* catch (err) { if (isMounted) setError(...) } finally { if (isMounted) setIsLoading(false) }
CatchFinally(msg) ==
  /\ error' = IF isMounted THEN msg ELSE error
  /\ isLoading' = IF isMounted THEN FALSE ELSE isLoading

\* finally { setIsLoading(false) } without the isMounted test.
FinallyUnguarded ==
  isLoading' = FALSE

\* finally { if (isMounted) setIsLoading(false) } reached without an exception.
Finally ==
  isLoading' = IF isMounted THEN FALSE ELSE isLoading

\* The job-search request settles and fetchAll runs up to its next await.
\* The message fetchAll sets after setJobs(foundJobs) (lines 175-182), from
\* the truthiness of jobsData.fallbackUsed and the number of listings.
JobsMessage(fallbackUsed, n) ==
  IF fallbackUsed /\ n > 0 THEN "nearby"
  ELSE IF n = 0 THEN "nojobs" ELSE "null"

JobsSettle ==
  /\ pc = "jobs"
  /\ \E o \in JobsOutcomes :
       IF o.kind \in {"netErr", "badJson"}
       THEN /\ CatchFinally("exception")
            /\ pc' = "done"
            /\ exitVia' = "catchJobs"
            /\ UNCHANGED <<jobs, simplifyCall, trainingCall>>
       ELSE IF ~isMounted
       THEN /\ Finally
            /\ pc' = "done"
            /\ exitVia' = "returnUnmounted"
            /\ UNCHANGED <<error, jobs, simplifyCall, trainingCall>>
       ELSE IF o.kind \in {"error", "errorEmptyJobs"}
       THEN /\ error' = "api"
            /\ jobs' = <<>>
            /\ Finally
            /\ pc' = "done"
            /\ exitVia' = "returnError"
            /\ UNCHANGED <<simplifyCall, trainingCall>>
       ELSE /\ jobs' = ListingKeys(o.n, o.sameKey)
            /\ error' = JobsMessage(o.fallbackUsed, o.n)
            /\ simplifyCall' = [i \in 1..o.n |-> "pending"]
            /\ trainingCall' = [i \in 1..o.n |-> "pending"]
            /\ IF o.n = 0
               THEN Finally /\ pc' = "done" /\ exitVia' = "ok"
               ELSE pc' = "enrich" /\ UNCHANGED <<isLoading, exitVia>>
  /\ UNCHANGED <<profileOk, isMounted, simplifiedDescriptions, trainingPlans>>
  /\ UNCHANGED outsideView

\* What runs when a per-listing promise settles, given the new call states:
\* the listing's continuation (lines 273-281), then the outer Promise.all.
AfterSettle(i, sc, tc) ==
  /\ simplifyCall' = sc
  /\ trainingCall' = tc
  /\ IF TaskFulfilled(sc, tc, i) /\ isMounted
     THEN /\ simplifiedDescriptions' = MapPut(simplifiedDescriptions, jobs[i], sc[i])
          /\ trainingPlans' = MapPut(trainingPlans, jobs[i], tc[i])
     ELSE UNCHANGED <<simplifiedDescriptions, trainingPlans>>
  /\ IF pc = "enrich" /\ TaskRejected(sc, tc, i)
     THEN /\ CatchFinally("Failed to simplify job posting")
          /\ pc' = "done"
          /\ exitVia' = "catchEnrich"
     ELSE IF pc = "enrich" /\ \A j \in DOMAIN sc : TaskFulfilled(sc, tc, j)
     THEN /\ Finally
          /\ pc' = "done"
          /\ exitVia' = "ok"
          /\ UNCHANGED error
     ELSE UNCHANGED <<pc, exitVia, error, isLoading>>
  /\ UNCHANGED <<profileOk, isMounted, jobs>>
  /\ UNCHANGED outsideView

SimplifySettle ==
  \E i \in DOMAIN simplifyCall, o \in CallOutcomes :
    /\ CallPending(simplifyCall[i])
    /\ AfterSettle(i, [simplifyCall EXCEPT ![i] = SimplifyResult(o)], trainingCall)

TrainingSettle ==
  \E i \in DOMAIN trainingCall, o \in CallOutcomes :
    /\ CallPending(trainingCall[i])
    /\ AfterSettle(i, simplifyCall, [trainingCall EXCEPT ![i] = TrainingResult(o)])

\* The effect's cleanup: return () => { isMounted = false }
Cleanup ==
  /\ pc # "idle"
  /\ isMounted
  /\ isMounted' = FALSE
  /\ UNCHANGED <<profileOk, pc, exitVia, isLoading, error, jobs,
                 simplifiedDescriptions, trainingPlans, simplifyCall, trainingCall>>
  /\ UNCHANGED outsideView

ViewNext ==
  \/ Effect
  \/ EffectWithoutProfile
  \/ JobsSettle
  \/ SimplifySettle
  \/ TrainingSettle
  \/ Cleanup

(***************************************************************************)
(* Strings and JSON                                                        *)
(*                                                                         *)
(* A string is a sequence of tokens: punctuation tokens, whitespace tokens *)
(* and word tokens (a word stands for a run of characters that holds no    *)
(* punctuation, quote or whitespace).  A JSON value is a record            *)
(*   [t: type, s: the tokens of a string, a: the elements of an array,     *)
(*    m: the <<key, value>> members of an object].                         *)
(***************************************************************************)
Quote == "\""
Space == " "
Newline == "\n"
Whitespace == {Space, Newline}

\* Tokens that are a complete JSON literal.
LiteralTokens == {"null", "true", "false", "0", "5"}

\* Tokens that stand for an object key with its colon, as in {"jobs": ...}.
KeyTokens ==
  {"jobs:", "data:", "id:", "title:", "employer:", "description:", "pay:",
   "location:", "jobTitle:", "simplifiedDescription:", "keyQualifications:",
   "accommodations:", "trainingSuggestions:", "tone:", "summary:", "phases:",
   "successMetrics:", "encouragement:"}

JVal(t, s, a, m) == [t |-> t, s |-> s, a |-> a, m |-> m]
JUndefined == JVal("undefined", <<>>, <<>>, <<>>)
JNull == JVal("null", <<>>, <<>>, <<>>)
JLit(tok) ==
  CASE tok = "null"  -> JNull
    [] tok = "true"  -> JVal("true", <<>>, <<>>, <<>>)
    [] tok = "false" -> JVal("false", <<>>, <<>>, <<>>)
    [] tok = "0"     -> JVal("num", <<"0">>, <<>>, <<>>)
    [] OTHER         -> JVal("num", <<tok>>, <<>>, <<>>)
JStr(s) == JVal("str", s, <<>>, <<>>)
JArr(a) == JVal("arr", <<>>, a, <<>>)
JObj(m) == JVal("obj", <<>>, <<>>, m)

\* JavaScript truthiness of a value: !value
Falsy(v) ==
  \/ v.t \in {"undefined", "null", "false"}
  \/ v.t = "num" /\ v.s = <<"0">>
  \/ v.t = "str" /\ v.s = <<>>

\* obj.key for an object value (the last member of that key), else undefined.
Member(v, key) ==
  IF v.t = "obj" /\ \E i \in DOMAIN v.m : v.m[i][1] = key
  THEN LET i == CHOOSE i \in DOMAIN v.m :
                  /\ v.m[i][1] = key
                  /\ \A j \in DOMAIN v.m : v.m[j][1] = key => j <= i
       IN v.m[i][2]
  ELSE JUndefined

ParseFail == [ok |-> FALSE, v |-> JUndefined, next |-> 0]
ParseOk(v, next) == [ok |-> TRUE, v |-> v, next |-> next]

RECURSIVE SkipWs(_, _)
SkipWs(s, i) ==
  IF i <= Len(s) /\ s[i] \in Whitespace THEN SkipWs(s, i + 1) ELSE i

\* The index of the first token equal to tok at or after i, or 0.
RECURSIVE IndexOfFrom(_, _, _)
IndexOfFrom(s, tok, i) ==
  IF i > Len(s) THEN 0
  ELSE IF s[i] = tok THEN i
  ELSE IndexOfFrom(s, tok, i + 1)

RECURSIVE LastIndexOfFrom(_, _, _)
LastIndexOfFrom(s, tok, i) ==
  IF i < 1 THEN 0
  ELSE IF s[i] = tok THEN i
  ELSE LastIndexOfFrom(s, tok, i - 1)

\* JSON.parse as a recursive-descent parser over the tokens.
RECURSIVE ParseValue(_, _), ParseElements(_, _, _), ParseMembers(_, _, _)
ParseValue(s, i) ==
  LET j == SkipWs(s, i) IN
  IF j > Len(s) THEN ParseFail
  ELSE IF s[j] \in LiteralTokens THEN ParseOk(JLit(s[j]), j + 1)
  ELSE IF s[j] = Quote
  THEN LET k == IndexOfFrom(s, Quote, j + 1) IN
       IF k = 0 \/ \E x \in (j + 1)..(k - 1) : s[x] = Newline
       THEN ParseFail
       ELSE ParseOk(JStr(SubSeq(s, j + 1, k - 1)), k + 1)
  ELSE IF s[j] = "["
  THEN LET j2 == SkipWs(s, j + 1) IN
       IF j2 <= Len(s) /\ s[j2] = "]"
       THEN ParseOk(JArr(<<>>), j2 + 1)
       ELSE ParseElements(s, j + 1, <<>>)
  ELSE IF s[j] = "{"
  THEN LET j2 == SkipWs(s, j + 1) IN
       IF j2 <= Len(s) /\ s[j2] = "}"
       THEN ParseOk(JObj(<<>>), j2 + 1)
       ELSE ParseMembers(s, j + 1, <<>>)
  ELSE ParseFail

ParseElements(s, i, acc) ==
  LET r == ParseValue(s, i) IN
  IF ~r.ok THEN ParseFail
  ELSE LET j == SkipWs(s, r.next) IN
       IF j > Len(s) THEN ParseFail
       ELSE IF s[j] = "," THEN ParseElements(s, j + 1, Append(acc, r.v))
       ELSE IF s[j] = "]" THEN ParseOk(JArr(Append(acc, r.v)), j + 1)
       ELSE ParseFail

ParseMembers(s, i, acc) ==
  LET k == SkipWs(s, i) IN
  IF k > Len(s) \/ s[k] \notin KeyTokens THEN ParseFail
  ELSE LET r == ParseValue(s, k + 1) IN
       IF ~r.ok THEN ParseFail
       ELSE LET j == SkipWs(s, r.next) IN
            IF j > Len(s) THEN ParseFail
            ELSE IF s[j] = "," THEN ParseMembers(s, j + 1, Append(acc, <<s[k], r.v>>))
            ELSE IF s[j] = "}" THEN ParseOk(JObj(Append(acc, <<s[k], r.v>>)), j + 1)
            ELSE ParseFail

\* JSON.parse(text): ok is FALSE where JSON.parse throws a SyntaxError.
JSONParse(s) ==
  LET r == ParseValue(s, 1) IN
  IF r.ok /\ SkipWs(s, r.next) > Len(s)
  THEN [ok |-> TRUE, v |-> r.v]
  ELSE [ok |-> FALSE, v |-> JUndefined]

\* JSON.stringify of an array of strings: ["a","b"] with no whitespace.
RECURSIVE StringifyItems(_)
StringifyItems(items) ==
  IF items = <<>> THEN <<>>
  ELSE <<Quote>> \o Head(items) \o <<Quote>>
         \o (IF Len(items) > 1 THEN <<",">> ELSE <<>>)
         \o StringifyItems(Tail(items))

StringifyStringArray(items) == <<"[">> \o StringifyItems(items) \o <<"]">>

\* String.prototype.trim
RECURSIVE TrimLeft(_), TrimRight(_)
TrimLeft(s) ==
  IF s # <<>> /\ Head(s) \in Whitespace THEN TrimLeft(Tail(s)) ELSE s
TrimRight(s) ==
  IF s # <<>> /\ s[Len(s)] \in Whitespace THEN TrimRight(SubSeq(s, 1, Len(s) - 1)) ELSE s
Trim(s) == TrimRight(TrimLeft(s))

\* String.prototype.split(","): the pieces between the commas.
RECURSIVE SplitComma(_)
SplitComma(s) ==
  LET k == IndexOfFrom(s, ",", 1) IN
  IF k = 0 THEN <<s>>
  ELSE <<SubSeq(s, 1, k - 1)>> \o SplitComma(SubSeq(s, k + 1, Len(s)))

RECURSIVE MapTrim(_), FilterNonEmpty(_)
MapTrim(pieces) ==
  IF pieces = <<>> THEN <<>> ELSE <<Trim(Head(pieces))>> \o MapTrim(Tail(pieces))
FilterNonEmpty(pieces) ==
  IF pieces = <<>> THEN <<>>
  ELSE (IF Head(pieces) = <<>> THEN <<>> ELSE <<Head(pieces)>>)
         \o FilterNonEmpty(Tail(pieces))

\* value.split(",").map((item) => item.trim()).filter(Boolean)
SplitTrimFilter(s) == FilterNonEmpty(MapTrim(SplitComma(s)))

\* array.filter((item) => typeof item === "string"), as a list of strings
RECURSIVE FilterStrings(_)
FilterStrings(a) ==
  IF a = <<>> THEN <<>>
  ELSE (IF Head(a).t = "str" THEN <<Head(a).s>> ELSE <<>>) \o FilterStrings(Tail(a))

(***************************************************************************)
(* The profile token: decoding (results/page.tsx)                          *)
(***************************************************************************)
\* Depth of the call stack left to safeParseArray's recursion.
StackDepth == 4

\* String(value), the text JSON.parse works on when handed a non-string.
ToStringTokens(v) ==
  CASE v.t \in {"str", "num"}  -> v.s
    [] v.t = "obj"             -> <<"[", "object", Space, "Object", "]">>
    [] OTHER                   -> <<v.t>>

Returned(list) == [ok |-> TRUE, list |-> list]
Thrown == [ok |-> FALSE, list |-> <<>>]

\* The catch block of safeParseArray: value.split(",")... is a TypeError
\* unless value is a string.
SafeParseCatch(value) ==
  IF value.t = "str" THEN Returned(SplitTrimFilter(value.s)) ELSE Thrown

\* safeParseArray(value) with d stack frames left; a call with none left
\* throws a RangeError into the caller's try block.
RECURSIVE SafeParseArrayAt(_, _)
SafeParseArrayAt(value, d) ==
  IF d = 0 THEN Thrown
  ELSE IF Falsy(value) THEN Returned(<<>>)
  ELSE IF value.t = "arr" THEN Returned(FilterStrings(value.a))
  ELSE LET parsed == JSONParse(ToStringTokens(value)) IN
       IF ~parsed.ok THEN SafeParseCatch(value)
       ELSE LET r == SafeParseArrayAt(parsed.v, d - 1) IN
            IF r.ok THEN r ELSE SafeParseCatch(value)

safeParseArray(value) == SafeParseArrayAt(value, StackDepth)

\* The arguments of the nested calls of safeParseArray(value), outermost
\* first, as far as d stack frames allow.
RECURSIVE SafeParseArrayCalls(_, _)
SafeParseArrayCalls(value, d) ==
  IF d = 0 THEN <<>>
  ELSE IF Falsy(value) \/ value.t = "arr" THEN <<value>>
  ELSE LET parsed == JSONParse(ToStringTokens(value)) IN
       IF ~parsed.ok THEN <<value>>
       ELSE <<value>> \o SafeParseArrayCalls(parsed.v, d - 1)

\* The data parameter as a string in layers: pct tells whether it holds
\* percent escapes ("none", "valid": well-formed ones over the inner string,
\* "malformed": decodeURIComponent throws URIError), b64 whether the inner
\* string is base64 text, json whether the decoded bytes are JSON text, and
\* v the JSON value of that text.
DataString(pct, b64, json, v) == [pct |-> pct, b64 |-> b64, json |-> json, v |-> v]
EmptyData == DataString("empty", FALSE, FALSE, JUndefined)

EmptyProfile ==
  [name |-> JUndefined, gender |-> JUndefined, homeless |-> JUndefined,
   race |-> <<>>, interests |-> <<>>, disabilities |-> <<>>,
   medicalConditions |-> <<>>, location |-> JUndefined]

ProfileResult(kind, p) == [kind |-> kind, p |-> p]
NoProfile == ProfileResult("none", EmptyProfile)
NullProfile == ProfileResult("null", EmptyProfile)
ThrewProfile == ProfileResult("threw", EmptyProfile)

\* The try block of decodeUserProfile (lines 98-113): "threw" where one of
\* decodeURIComponent, atob, JSON.parse, a property read of null or
\* safeParseArray throws.
DecodeTryBlock(encoded) ==
  IF encoded.pct = "malformed" THEN ThrewProfile
  ELSE IF ~encoded.b64 THEN ThrewProfile
  ELSE IF ~encoded.json THEN ThrewProfile
  ELSE IF encoded.v.t = "null" THEN ThrewProfile
  ELSE LET parsed == encoded.v
           race == safeParseArray(Member(parsed, "race"))
           ints == safeParseArray(Member(parsed, "interest"))
           dis == safeParseArray(Member(parsed, "disabilities"))
           med == safeParseArray(Member(parsed, "medical-conditions"))
       IN IF ~(race.ok /\ ints.ok /\ dis.ok /\ med.ok) THEN ThrewProfile
          ELSE ProfileResult("profile",
                 [name |-> Member(parsed, "name"),
                  gender |-> Member(parsed, "gender"),
                  homeless |-> Member(parsed, "homeless"),
                  race |-> race.list,
                  interests |-> ints.list,
                  disabilities |-> dis.list,
                  medicalConditions |-> med.list,
                  location |-> Member(parsed, "location")])

\* decodeUserProfile with safeParseArray's exceptions escaping the try block.
decodeUserProfileUnguarded(encoded) ==
  IF encoded.pct = "empty" THEN NullProfile ELSE DecodeTryBlock(encoded)

\* decodeUserProfile({ data: encoded })
decodeUserProfile(encoded) ==
  IF encoded.pct = "empty" THEN NullProfile
  ELSE LET r == DecodeTryBlock(encoded) IN
       IF r.kind = "threw" THEN NullProfile ELSE r

(***************************************************************************)
(* The form (page.tsx): editing, validation and the submit handler         *)
(***************************************************************************)
\* The values the inputs take in the model.  Word tokens stand for runs of
\* Latin-1 characters, except those of NonLatin1Tokens.
NonLatin1Tokens == {"Lodz-with-stroke"}
Names == {<<>>, <<Space>>, <<"Ann">>, <<"Lodz-with-stroke">>}
Genders == {"male"}
HomelessValues == {"yes"}
\* Race checkboxes in document order (two of the eight of the form).
RaceOrder == <<"asian", "white">>
RaceValues == {RaceOrder[i] : i \in DOMAIN RaceOrder}
interestOptions == {<<"Sports">>, <<"Music">>}
disabilityOptions == {<<"Knee", Space, "Injury">>}
medicalConditionOptions == {<<"HIV/AIDS">>}
Locations == {<<>>, <<"Austin", ",", Space, "TX">>, <<"Lodz-with-stroke">>}

\* SearchableMultiSelect: the options offered (an empty search query matches
\* every option) and the two handlers.
\* The dropdown offering every option of the catalog, selected or not.
filteredOptionsKeepSelected(options, selected) == options

\* filteredOptions with an empty search query: the options not yet selected.
filteredOptions(options, selected) ==
  {o \in options : \A i \in DOMAIN selected : selected[i] # o}

handleSelect(selected, option) == Append(selected, option)

RECURSIVE handleRemove(_, _)
handleRemove(selected, option) ==
  IF selected = <<>> THEN <<>>
  ELSE (IF Head(selected) # option THEN <<Head(selected)>> ELSE <<>>)
         \o handleRemove(Tail(selected), option)

\* validateForm: the keys of newErrors.
validateForm ==
  (IF Trim(fName) = <<>> THEN {"name"} ELSE {})
    \cup (IF fGender = "" THEN {"gender"} ELSE {})
    \cup (IF fHomeless = "" THEN {"homeless"} ELSE {})
    \cup (IF fRace = {} THEN {"race"} ELSE {})
    \cup (IF Trim(location) = <<>> THEN {"location"} ELSE {})

\* new FormData(form): the successful controls in document order.
RECURSIVE RaceEntries(_)
RaceEntries(i) ==
  IF i > Len(RaceOrder) THEN <<>>
  ELSE (IF RaceOrder[i] \in fRace THEN <<<<"race", JStr(<<RaceOrder[i]>>)>>>> ELSE <<>>)
         \o RaceEntries(i + 1)

FormDataEntries ==
  <<<<"name", JStr(fName)>>>>
    \o (IF fGender # "" THEN <<<<"gender", JStr(<<fGender>>)>>>> ELSE <<>>)
    \o (IF fHomeless # "" THEN <<<<"homeless", JStr(<<fHomeless>>)>>>> ELSE <<>>)
    \o RaceEntries(1)
    \o <<<<"interest", JStr(StringifyStringArray(interests))>>,
         <<"disabilities", JStr(StringifyStringArray(disabilities))>>,
         <<"medical-conditions", JStr(StringifyStringArray(medicalConditions))>>,
         <<"location", JStr(location)>>>>

\* obj[key] = value on an object's member list.
ObjectSet(m, key, value) ==
  IF \E i \in DOMAIN m : m[i][1] = key
  THEN [i \in DOMAIN m |-> IF m[i][1] = key THEN <<key, value>> ELSE m[i]]
  ELSE Append(m, <<key, value>>)

\* Object.fromEntries(entries)
RECURSIVE ObjectFromEntries(_, _)
ObjectFromEntries(entries, acc) ==
  IF entries = <<>> THEN acc
  ELSE CHOOSE r \in
         {ObjectFromEntries(rest, next) :
            rest \in {Tail(entries)},
            next \in {ObjectSet(acc, Head(entries)[1], Head(entries)[2])}} : TRUE

\* The data object of the submit handler (lines 560-564).
SubmitData ==
  CHOOSE r \in
    {ObjectSet(d3, "location", JStr(location)) :
       d3 \in {ObjectSet(d2, "medical-conditions", JStr(StringifyStringArray(medicalConditions))) :
         d2 \in {ObjectSet(d1, "disabilities", JStr(StringifyStringArray(disabilities))) :
           d1 \in {ObjectSet(d0, "interests", JStr(StringifyStringArray(interests))) :
             d0 \in {ObjectFromEntries(entries, <<>>) : entries \in {FormDataEntries}}}}}} : TRUE

\* btoa throws InvalidCharacterError on a character outside Latin-1.
BtoaThrows(m) ==
  \E i \in DOMAIN m : \E k \in DOMAIN m[i][2].s : m[i][2].s[k] \in NonLatin1Tokens

\* btoa(JSON.stringify(data))
Btoa(m) == DataString("none", TRUE, TRUE, JObj(m))

\* encodeURIComponent escapes the "+", "/" and "=" of base64 text.
EncodeURIComponent(d) == [d EXCEPT !.pct = "valid"]

\* searchParams.get("data") undoes the escapes of the query string.
SearchParamsGet(d) == [d EXCEPT !.pct = IF d.pct = "valid" THEN "none" ELSE d.pct]

FormInit ==
  /\ fName = <<>>
  /\ fGender = ""
  /\ fHomeless = ""
  /\ fRace = {}
  /\ interests = <<>>
  /\ disabilities = <<>>
  /\ medicalConditions = <<>>
  /\ location = <<>>
  /\ formErrors = {}
  /\ formIsLoading = FALSE
  /\ formPc = "editing"

TokenInit ==
  /\ origin = "none"
  /\ dataParam = EmptyData
  /\ profile = NoProfile

Editing == formPc = "editing"

EditName ==
  /\ Editing
  /\ \E n \in Names : fName' = n
  /\ UNCHANGED <<fGender, fHomeless, fRace, interests, disabilities,
                 medicalConditions, location, formErrors, formIsLoading, formPc>>
  /\ UNCHANGED <<tokenVars, outsideForm>>

PickGender ==
  /\ Editing
  /\ \E g \in Genders : fGender' = g
  /\ UNCHANGED <<fName, fHomeless, fRace, interests, disabilities,
                 medicalConditions, location, formErrors, formIsLoading, formPc>>
  /\ UNCHANGED <<tokenVars, outsideForm>>

PickHomeless ==
  /\ Editing
  /\ \E h \in HomelessValues : fHomeless' = h
  /\ UNCHANGED <<fName, fGender, fRace, interests, disabilities,
                 medicalConditions, location, formErrors, formIsLoading, formPc>>
  /\ UNCHANGED <<tokenVars, outsideForm>>

ToggleRace ==
  /\ Editing
  /\ \E r \in RaceValues : fRace' = IF r \in fRace THEN fRace \ {r} ELSE fRace \cup {r}
  /\ UNCHANGED <<fName, fGender, fHomeless, interests, disabilities,
                 medicalConditions, location, formErrors, formIsLoading, formPc>>
  /\ UNCHANGED <<tokenVars, outsideForm>>

InterestSelect ==
  /\ Editing
  /\ \E o \in filteredOptions(interestOptions, interests) :
       interests' = handleSelect(interests, o)
  /\ UNCHANGED <<fName, fGender, fHomeless, fRace, disabilities,
                 medicalConditions, location, formErrors, formIsLoading, formPc>>
  /\ UNCHANGED <<tokenVars, outsideForm>>

InterestRemove ==
  /\ Editing
  /\ \E i \in DOMAIN interests : interests' = handleRemove(interests, interests[i])
  /\ UNCHANGED <<fName, fGender, fHomeless, fRace, disabilities,
                 medicalConditions, location, formErrors, formIsLoading, formPc>>
  /\ UNCHANGED <<tokenVars, outsideForm>>

DisabilitySelect ==
  /\ Editing
  /\ \E o \in filteredOptions(disabilityOptions, disabilities) :
       disabilities' = handleSelect(disabilities, o)
  /\ UNCHANGED <<fName, fGender, fHomeless, fRace, interests,
                 medicalConditions, location, formErrors, formIsLoading, formPc>>
  /\ UNCHANGED <<tokenVars, outsideForm>>

DisabilityRemove ==
  /\ Editing
  /\ \E i \in DOMAIN disabilities :
       disabilities' = handleRemove(disabilities, disabilities[i])
  /\ UNCHANGED <<fName, fGender, fHomeless, fRace, interests,
                 medicalConditions, location, formErrors, formIsLoading, formPc>>
  /\ UNCHANGED <<tokenVars, outsideForm>>

MedicalSelect ==
  /\ Editing
  /\ \E o \in filteredOptions(medicalConditionOptions, medicalConditions) :
       medicalConditions' = handleSelect(medicalConditions, o)
  /\ UNCHANGED <<fName, fGender, fHomeless, fRace, interests,
                 disabilities, location, formErrors, formIsLoading, formPc>>
  /\ UNCHANGED <<tokenVars, outsideForm>>

MedicalRemove ==
  /\ Editing
  /\ \E i \in DOMAIN medicalConditions :
       medicalConditions' = handleRemove(medicalConditions, medicalConditions[i])
  /\ UNCHANGED <<fName, fGender, fHomeless, fRace, interests,
                 disabilities, location, formErrors, formIsLoading, formPc>>
  /\ UNCHANGED <<tokenVars, outsideForm>>

\* LocationAutocomplete's onChange hands the typed or chosen text to setLocation.
EditLocation ==
  /\ Editing
  /\ \E l \in Locations : location' = l
  /\ UNCHANGED <<fName, fGender, fHomeless, fRace, interests, disabilities,
                 medicalConditions, formErrors, formIsLoading, formPc>>
  /\ UNCHANGED <<tokenVars, outsideForm>>

\* onSubmit up to its await: validation, then setIsLoading(true) and the timer.
Submit ==
  /\ Editing
  /\ formErrors' = validateForm
  /\ IF validateForm # {}
     THEN UNCHANGED <<formIsLoading, formPc>>
     ELSE formIsLoading' = TRUE /\ formPc' = "waiting"
  /\ UNCHANGED <<fName, fGender, fHomeless, fRace, interests, disabilities,
                 medicalConditions, location>>
  /\ UNCHANGED <<tokenVars, outsideForm>>

\* onSubmit after the timer: the token is built and the browser navigates,
\* or btoa throws and the handler's promise rejects.
Navigate ==
  /\ formPc = "waiting"
  /\ \E data \in {SubmitData} :
       IF BtoaThrows(data)
       THEN /\ formPc' = "threw"
            /\ UNCHANGED <<origin, dataParam>>
       ELSE /\ formPc' = "navigated"
            /\ origin' = "form"
            /\ dataParam' = SearchParamsGet(EncodeURIComponent(Btoa(data)))
  /\ UNCHANGED <<fName, fGender, fHomeless, fRace, interests, disabilities,
                 medicalConditions, location, formErrors, formIsLoading, profile>>
  /\ UNCHANGED outsideForm

\* Values a field of a hand-made token can hold.
FieldSamples ==
  {JUndefined, JNull, JLit("0"), JLit("5"), JLit("true"), JStr(<<>>),
   JStr(<<"white">>), JStr(<<"5">>), JStr(<<"0">>), JStr(<<"a", ",", Space, "b">>),
   JStr(StringifyStringArray(<<<<"Sports">>>>)),
   JArr(<<JStr(<<"Sports">>), JLit("5")>>), JObj(<<>>)}

\* JSON values a hand-made token can hold.
ValueSamples ==
  {JNull, JLit("5"), JStr(<<"x">>), JArr(<<>>), JObj(<<>>)}
    \cup {JObj(<<<<"name", n>>, <<"race", r>>, <<"interest", i>>>>) :
            n \in {JUndefined, JStr(<<"Ann">>)}, r \in FieldSamples, i \in FieldSamples}

\* The strings the data parameter of a hand-written URL can hold.
UrlDataParams ==
  {EmptyData, DataString("malformed", FALSE, FALSE, JUndefined)}
    \cup {DataString(p, FALSE, FALSE, JUndefined) : p \in {"none", "valid"}}
    \cup {DataString(p, TRUE, FALSE, JUndefined) : p \in {"none", "valid"}}
    \cup {DataString(p, TRUE, TRUE, v) : p \in {"none", "valid"}, v \in ValueSamples}

\* The results view is opened from a URL written by hand.
VisitUrl ==
  /\ Editing
  /\ origin = "none"
  /\ FormInit
  /\ \E d \in UrlDataParams : dataParam' = d
  /\ origin' = "url"
  /\ formPc' = "navigated"
  /\ UNCHANGED <<fName, fGender, fHomeless, fRace, interests, disabilities,
                 medicalConditions, location, formErrors, formIsLoading, profile>>
  /\ UNCHANGED outsideForm

\* The results view's useMemo (lines 124-127).
profileMemo(d) ==
  IF d.pct = "empty" THEN NullProfile ELSE decodeUserProfile(d)

Decode ==
  /\ formPc = "navigated"
  /\ profile = NoProfile
  /\ profile' = profileMemo(dataParam)
  /\ UNCHANGED <<formVars, origin, dataParam>>
  /\ UNCHANGED outsideForm

TokenNext ==
  \/ EditName
  \/ PickGender
  \/ PickHomeless
  \/ ToggleRace
  \/ InterestSelect
  \/ InterestRemove
  \/ DisabilitySelect
  \/ DisabilityRemove
  \/ MedicalSelect
  \/ MedicalRemove
  \/ EditLocation
  \/ Submit
  \/ Navigate
  \/ VisitUrl
  \/ Decode

(***************************************************************************)
(* The job-search adapter: parseModelResponse (search-jobs/route.ts)       *)
(***************************************************************************)
\* The code fence of three backquotes, one token.
Fence == "fence3"

\* content.match(/FENCE(?:json)?\s*([\s\S]*?)\s*FENCE/): the captured group.
\* The match starts at the first fence that has a later fence, takes "json"
\* when it follows, and ends at the next fence; the greedy \s* before and the
\* lazy group before \s*FENCE leave the group trimmed.
FenceMatch(s) ==
  LET i == IndexOfFrom(s, Fence, 1)
      j == IF i = 0 THEN 0 ELSE IndexOfFrom(s, Fence, i + 1)
  IN IF j = 0 THEN [matched |-> FALSE, group |-> <<>>]
     ELSE LET inner == SubSeq(s, i + 1, j - 1)
              body == IF inner # <<>> /\ Head(inner) = "json" THEN Tail(inner) ELSE inner
          IN [matched |-> TRUE, group |-> Trim(body)]

\* content.slice(content.indexOf(open), content.lastIndexOf(close) + 1), with
\* found FALSE when one of the two is -1.
BracketSlice(s, open, close) ==
  LET f == IndexOfFrom(s, open, 1)
      l == LastIndexOfFrom(s, close, Len(s))
  IN [found |-> f # 0 /\ l # 0, text |-> IF f # 0 /\ l # 0 THEN SubSeq(s, f, l) ELSE <<>>]

EmptyArray == JArr(<<>>)

\* The try block of parseModelResponse after a successful JSON.parse that
\* gave neither an array nor an object with a jobs array (lines 64-76);
\* ok is FALSE where it throws.
ParseFallbackTiers(s) ==
  LET fm == FenceMatch(s)
      bs == BracketSlice(s, "[", "]")
  IN IF fm.matched THEN JSONParse(fm.group)
     ELSE IF bs.found THEN JSONParse(bs.text)
     ELSE [ok |-> TRUE, v |-> EmptyArray]

\* parseModelResponse(content) of search-jobs/route.ts (lines 54-80); the
\* empty token sequence is the null or empty content.
parseJobs(s) ==
  IF s = <<>> THEN EmptyArray
  ELSE LET direct == JSONParse(s) IN
       IF ~direct.ok THEN EmptyArray
       ELSE IF direct.v.t = "arr" THEN direct.v
       ELSE IF direct.v.t = "null" THEN EmptyArray
       ELSE IF ~Falsy(Member(direct.v, "jobs:")) /\ Member(direct.v, "jobs:").t = "arr"
       THEN Member(direct.v, "jobs:")
       ELSE LET r == ParseFallbackTiers(s) IN IF r.ok THEN r.v ELSE EmptyArray

\* Token sequences of a length up to n over an alphabet.
RECURSIVE SeqsUpTo(_, _)
SeqsUpTo(alphabet, n) ==
  IF n = 0 THEN {<<>>}
  ELSE LET shorter == SeqsUpTo(alphabet, n - 1)
       IN shorter \cup {Append(t, a) : t \in {u \in shorter : Len(u) = n - 1}, a \in alphabet}

ContentAlphabet == {"[", "]", "{", "}", Fence, "json", "x", "null"}

\* Listing objects as completions spell them.
ListingA == <<"{", "id:", Quote, "a", Quote, ",", "title:", Quote, "Clerk", Quote, "}">>
ListingB == <<"{", "id:", Quote, "b", Quote, "}">>
ListingNoId == <<"{", "title:", Quote, "Greeter", Quote, "}">>
ArrayAB == <<"[">> \o ListingA \o <<",">> \o ListingB \o <<"]">>

\* Completions of the shapes a model answers with.
ContentSamples ==
  {ArrayAB,
   <<"[">> \o ListingA \o <<",">> \o ListingA \o <<"]">>,
   <<"[">> \o ListingNoId \o <<",", "5", ",">> \o ListingNoId \o <<"]">>,
   <<"[">> \o ListingA \o <<",", "null", "]">>,
   <<"[", "{", "}", ",", "{", "}", ",", "{", "}", ",", "{", "}", ",", "{", "}", ",", "{", "}", "]">>,
   <<"[", "]">>,
   <<Fence, "json", Newline>> \o ArrayAB \o <<Newline, Fence>>,
   <<Fence, Newline>> \o ArrayAB \o <<Newline, Fence>>,
   <<"x", Space>> \o ArrayAB,
   <<"{", "jobs:">> \o ArrayAB \o <<"}">>,
   <<"{", "data:">> \o ArrayAB \o <<"}">>,
   <<"{", "data:", "5", "}">>,
   <<Quote, Fence, "[", "]", Fence, Quote>>,
   <<Quote, Fence, "5", Fence, Quote>>,
   <<"null">>,
   <<"5">>}

ContentInputs == SeqsUpTo(ContentAlphabet, MaxContentLen) \cup ContentSamples

ParseInit ==
  /\ content \in ContentInputs
  /\ parsedJobs = [done |-> FALSE, v |-> JUndefined]

\* The parse part as the other parts see it: not used.
ParseOff ==
  /\ content = <<>>
  /\ parsedJobs = [done |-> FALSE, v |-> JUndefined]

CallParseJobs ==
  /\ ~parsedJobs.done
  /\ parsedJobs' = [done |-> TRUE, v |-> parseJobs(content)]
  /\ UNCHANGED content
  /\ UNCHANGED outsideParse

ParseNext == CallParseJobs

(***************************************************************************)
(* The generative upstream as the routes see it                            *)
(***************************************************************************)
Part(text) == [hasText |-> TRUE, text |-> text]
NoTextPart == [hasText |-> FALSE, text |-> <<>>]
Candidate(parts) == [hasParts |-> TRUE, parts |-> parts]
NoPartsCandidate == [hasParts |-> FALSE, parts |-> <<>>]

\* What the fetch of a route comes to: it throws, answers a non-2xx status,
\* answers 2xx with a body response.json() rejects, or 2xx with candidates.
Upstream(kind, candidates) == [kind |-> kind, candidates |-> candidates]
NoFetch == Upstream("none", <<>>)
FetchThrows == Upstream("fetchThrows", <<>>)
NotOk == Upstream("notOk", <<>>)
BadBody == Upstream("badBody", <<>>)
OkData(candidates) == Upstream("ok", candidates)
OkText(text) == OkData(<<Candidate(<<Part(text)>>)>>)
UpstreamFailures == {FetchThrows, NotOk, BadBody}

\* parts.map((part) => part?.text ?? "").join("\n")
RECURSIVE JoinParts(_)
JoinParts(parts) ==
  IF parts = <<>> THEN <<>>
  ELSE (IF Head(parts).hasText THEN Head(parts).text ELSE <<>>)
         \o (IF Len(parts) > 1 THEN <<Newline>> ELSE <<>>)
         \o JoinParts(Tail(parts))

\* extractGeminiText(data): the text of the first candidate that has any;
\* the empty token sequence is its null.
RECURSIVE extractGeminiText(_)
extractGeminiText(candidates) ==
  IF candidates = <<>> THEN <<>>
  ELSE LET candidate == Head(candidates)
           text == IF candidate.hasParts THEN Trim(JoinParts(candidate.parts)) ELSE <<>>
       IN IF text # <<>> THEN text ELSE extractGeminiText(Tail(candidates))

(***************************************************************************)
(* The job-search route (search-jobs/route.ts)                             *)
(***************************************************************************)
CatalogSize == 10
ServedCount == 5

Dec(n) == <<"0", "1", "2", "3", "4", "5", "6", "7", "8", "9", "10">>[n + 1]

JobListing(id, title, employer, description, pay, loc) ==
  [id |-> id, title |-> title, employer |-> employer,
   description |-> description, pay |-> pay, location |-> loc]

extractCityAndState(loc) ==
  LET parts == SplitComma(loc)
      city == IF Trim(parts[1]) # <<>> THEN Trim(parts[1]) ELSE Trim(loc)
      state == IF Len(parts) >= 2 /\ Trim(parts[2]) # <<>> THEN Trim(parts[2]) ELSE <<>>
  IN [city |-> city, state |-> state]

\* const locationParam = state ? `${city}, ${state}` : city
LocationParam(loc) ==
  LET cs == extractCityAndState(loc)
  IN IF cs.state # <<>> THEN cs.city \o <<",", Space>> \o cs.state ELSE cs.city

baseJobTitles ==
  <<"Customer Service Representative", "Data Entry Clerk", "Retail Associate",
    "Security Guard", "Janitorial Staff", "Receptionist", "Warehouse Associate",
    "Delivery Driver Helper", "Remote Customer Support", "Maintenance Helper">>
baseJobEmployers ==
  <<"Community Support Services", "Local Business Solutions", "Neighborhood Store",
    "SafeGuard Services", "CleanWorks Inc.", "Medical Office Group",
    "Distribution Center", "Local Delivery Service", "Tech Support Solutions",
    "Property Management Co.">>
baseJobPays ==
  <<"$16/hr 20-30 hrs/week", "$15/hr Full-time", "$14-17/hr Part-time or Full-time",
    "$18/hr Various shifts", "$15-18/hr Part-time", "$17/hr Full-time",
    "$16-19/hr Full-time", "$17/hr Part-time", "$16/hr Full-time or Part-time",
    "$18/hr Full-time">>

\* The catalog of generateHardcodedJobs for a location parameter.
baseJobs(locationParam) ==
  [k \in 1..CatalogSize |->
     JobListing(JStr(<<"job-", Dec(k), "-", "now">>), JStr(<<baseJobTitles[k]>>),
                JStr(<<baseJobEmployers[k]>>), JStr(<<"description", Dec(k)>>),
                JStr(<<baseJobPays[k]>>), JStr(locationParam))]

\* Orders that sort(() => 0.5 - Math.random()) can leave the catalog in:
\* the rotations by up to MaxShift and their reversals.
Rotation(k) == [i \in 1..CatalogSize |-> ((i + k - 1) % CatalogSize) + 1]
Reversed(p) == [i \in 1..CatalogSize |-> p[CatalogSize + 1 - i]]
Shuffles == {Rotation(k) : k \in 0..MaxShift} \cup {Reversed(Rotation(k)) : k \in 0..MaxShift}

\* What `${Date.now()}-${Math.random().toString(36).substr(2, 9)}` gives for
\* the listing of an index: the same stamp for all, or alternating stamps.
RandomPatterns == {"same", "alternating"}
Stamp(rnd, index) ==
  IF rnd = "alternating" /\ index % 2 = 1 THEN "now-r2" ELSE "now-r1"

\* generateHardcodedJobs with ids that leave out the index.
generateHardcodedJobsStampIds(loc, perm, rnd) ==
  LET catalog == baseJobs(LocationParam(loc))
  IN [i \in 1..ServedCount |->
        [catalog[perm[i]] EXCEPT !.id = JStr(<<"job-", Stamp(rnd, i)>>)]]

\* generateHardcodedJobs(location, ...): shuffled.slice(0, 5) with fresh ids.
generateHardcodedJobs(loc, perm, rnd) ==
  LET catalog == baseJobs(LocationParam(loc))
  IN [i \in 1..ServedCount |->
        [catalog[perm[i]] EXCEPT !.id = JStr(<<"job-", Dec(i), "-", Stamp(rnd, i)>>)]]

\* a || b
OrElse(a, b) == IF Falsy(a) THEN b ELSE a

\* The interests && interests.length > 0 ? interests.join(", ") : null of
\* buildJobGenerationPrompt throws for a non-empty string.
JoinThrows(v) == v.t = "str" /\ v.s # <<>>
buildJobGenerationPromptThrows(payload) ==
  \/ JoinThrows(Member(payload, "interests:"))
  \/ JoinThrows(Member(payload, "disabilities:"))
  \/ JoinThrows(Member(payload, "medicalConditions:"))

\* jobs.map((job, index) => ({ id: job.id || ..., ... })), index from 0.
MapAiJobs(items, loc, rnd) ==
  [i \in 1..Len(items) |->
     JobListing(OrElse(Member(items[i], "id:"), JStr(<<"job-", Dec(i - 1), "-", Stamp(rnd, i - 1)>>)),
                OrElse(Member(items[i], "title:"), JStr(<<"Job Opportunity">>)),
                OrElse(Member(items[i], "employer:"), JStr(<<"Employer">>)),
                OrElse(Member(items[i], "description:"), JStr(<<"No description available.">>)),
                OrElse(Member(items[i], "pay:"), JStr(<<"Salary not specified">>)),
                OrElse(Member(items[i], "location:"), JStr(loc)))]

AiThrown(fetched) == [ok |-> FALSE, jobs |-> <<>>, fetched |-> fetched]

\* return jobs.map(...) of generateJobsWithGemini: a TypeError where jobs
\* has no map, or where an element is null.
MapParsedJobs(parsed, loc, rnd) ==
  IF parsed.t # "arr" THEN AiThrown(TRUE)
  ELSE IF \E i \in DOMAIN parsed.a : parsed.a[i].t = "null" THEN AiThrown(TRUE)
  ELSE [ok |-> TRUE, jobs |-> MapAiJobs(parsed.a, loc, rnd), fetched |-> TRUE]

\* generateJobsWithGemini(location, ...): ok is FALSE where it throws,
\* fetched tells whether it came to call fetch. (The set constructors bind
\* content and jobs, each computed once.)
generateJobsWithGemini(loc, payload, key, up, rnd) ==
  IF ~key THEN AiThrown(FALSE)
  ELSE IF buildJobGenerationPromptThrows(payload) THEN AiThrown(FALSE)
  ELSE IF up.kind # "ok" THEN AiThrown(TRUE)
  ELSE CHOOSE r \in {MapParsedJobs(parsed, loc, rnd) :
                       parsed \in {parseJobs(text) :
                                     text \in {extractGeminiText(up.candidates)}}} : TRUE

\* j.id === job.id for the listings at two positions: primitives by value,
\* arrays and objects by identity.
SameId(list, i, j) ==
  \/ i = j
  \/ list[i].id = list[j].id /\ list[i].id.t \notin {"arr", "obj"}

\* jobs.filter((job, index, self) => index === self.findIndex((j) => j.id === job.id))
RECURSIVE UniqueFrom(_, _)
UniqueFrom(list, i) ==
  IF i > Len(list) THEN <<>>
  ELSE (IF \A j \in 1..(i - 1) : ~SameId(list, j, i) THEN <<list[i]>> ELSE <<>>)
         \o UniqueFrom(list, i + 1)
uniqueJobs(list) == UniqueFrom(list, 1)

\* array.slice(0, n)
SliceTo(a, n) == SubSeq(a, 1, IF Len(a) < n THEN Len(a) ELSE n)

NoRecord == [provider |-> "none"]

\* A response of a route: status and JSON body, with whether the handler
\* called fetch and which listings it served.
\* A route that flags the responses in which it serves the hardcoded listings.
ResponseFallbackFlagged(status, kind, message, listings, record, fetched, served) ==
  [status |-> status, kind |-> kind, error |-> message, jobs |-> listings,
   record |-> record, fetched |-> fetched, served |-> served,
   fallbackUsed |-> IF kind # "jobs" THEN "absent"
                    ELSE IF served = "hardcoded" THEN "true" ELSE "false"]

\* NextResponse.json(...): fallbackUsed is the member of that name in the
\* body, written as false in both bodies that carry listings (lines 420-423
\* and 433-436) and absent in every other body.
Response(status, kind, message, listings, record, fetched, served) ==
  [status |-> status, kind |-> kind, error |-> message, jobs |-> listings,
   record |-> record, fetched |-> fetched, served |-> served,
   fallbackUsed |-> IF kind = "jobs" THEN "false" ELSE "absent"]
ErrorResponse(status, message) == Response(status, "error", message, <<>>, NoRecord, FALSE, "none")
\* The handler threw: the framework answers 500.
UncaughtException == Response(500, "uncaught", "TypeError", <<>>, NoRecord, FALSE, "none")
NoResponse == Response(0, "none", "", <<>>, NoRecord, FALSE, "none")

Body(valid, v) == [valid |-> valid, v |-> v]
InvalidJsonBody == Body(FALSE, JUndefined)

\* Whether the job-search handler comes to call fetch for a request.
SearchFetches(body, key) ==
  /\ body.valid
  /\ Member(body.v, "location:").t = "str"
  /\ Member(body.v, "location:").s # <<>>
  /\ generateJobsWithGemini(<<>>, body.v, key, NotOk, "same").fetched

\* The try block of POST (lines 378-423) once the hardcoded listings are
\* generated and, with a key, generateJobsWithGemini has returned or thrown.
ServeJobs(key, hardcoded, ai) ==
  LET useAi == key /\ ai.ok /\ Len(ai.jobs) > 0
      chosen == IF useAi THEN ai.jobs ELSE hardcoded
  IN CHOOSE r \in
       {IF unique = <<>>
        THEN Response(200, "empty", "Unable to generate job listings.", <<>>, NoRecord,
                      key /\ ai.fetched, "none")
        ELSE Response(200, "jobs", "", SliceTo(unique, ServedCount), NoRecord,
                      key /\ ai.fetched, IF useAi THEN "generated" ELSE "hardcoded") :
          unique \in {uniqueJobs(chosen)}} : TRUE

\* POST of search-jobs/route.ts.
SearchJobsRoute(body, key, up, perm, rnd) ==
  IF ~body.valid THEN ErrorResponse(400, "Invalid JSON body.")
  ELSE IF Falsy(Member(body.v, "location:")) THEN ErrorResponse(400, "Location is required.")
  ELSE IF Member(body.v, "location:").t # "str" THEN UncaughtException
  ELSE CHOOSE r \in
         {ServeJobs(key, generateHardcodedJobs(locationParam, perm, rnd),
                    generateJobsWithGemini(locationParam, body.v, key, up, rnd)) :
            locationParam \in {LocationParam(Member(body.v, "location:").s)}} : TRUE

LocationAlphabet == {"a", ",", Space}
LocationStrings == SeqsUpTo(LocationAlphabet, MaxLocLen)

\* Values of the location field that are not strings.
OtherLocationValues ==
  {JUndefined, JNull, JLit("0"), JLit("false"), JLit("5"), JLit("true"),
   JArr(<<>>), JObj(<<>>)}

SearchPayload(loc, interestsValue) ==
  JObj(<< <<"location:", loc>>, <<"interests:", interestsValue>> >>)

SearchBodies ==
  {InvalidJsonBody, Body(TRUE, JNull), Body(TRUE, JLit("5")), Body(TRUE, JObj(<<>>))}
    \cup {Body(TRUE, SearchPayload(l, i)) :
            l \in OtherLocationValues \cup {JStr(t) : t \in LocationStrings},
            i \in {JUndefined, JStr(<<"Art">>)}}

ListingNoKeys == <<"{", "}">>
ListingObjectId == <<"{", "id:", "{", "}", "}">>
\* Completions the generative call of the route answers with.
SearchContents ==
  {ArrayAB,
   <<"[">> \o ListingA \o <<",">> \o ListingA \o <<"]">>,
   <<"[">> \o ListingNoId \o <<",", "5", ",">> \o ListingNoId \o <<"]">>,
   <<"[">> \o ListingA \o <<",", "null", "]">>,
   <<"[">> \o ListingNoKeys \o <<",">> \o ListingNoKeys \o <<",">> \o ListingNoKeys
      \o <<",">> \o ListingNoKeys \o <<",">> \o ListingNoKeys \o <<",">> \o ListingNoKeys \o <<"]">>,
   <<"[", "]">>,
   <<Fence, "json", Newline>> \o ArrayAB \o <<Newline, Fence>>,
   <<"{", "jobs:">> \o ArrayAB \o <<"}">>,
   <<"{", "data:">> \o ArrayAB \o <<"}">>,
   <<Quote, Fence, "5", Fence, Quote>>,
   <<"[">> \o ListingObjectId \o <<",">> \o ListingObjectId \o <<"]">>}

SearchUpstreams ==
  UpstreamFailures
    \cup {OkText(c) : c \in SearchContents}
    \cup {OkData(<<>>), OkData(<<NoPartsCandidate>>), OkData(<<Candidate(<<NoTextPart>>)>>),
          OkData(<<Candidate(<<Part(<<"[">> \o ListingA), Part(<<"]">>)>>)>>),
          OkData(<<NoPartsCandidate, Candidate(<<Part(ArrayAB)>>)>>)}

Request(route, body, key, up) == [route |-> route, body |-> body, key |-> key, up |-> up]
NoRequest == Request("none", InvalidJsonBody, FALSE, NoFetch)

RoutesInit ==
  /\ req = NoRequest
  /\ resp = NoResponse

SearchJobsPOST ==
  /\ req.route = "none"
  /\ \E body \in SearchBodies, key \in BOOLEAN, perm \in Shuffles, rnd \in RandomPatterns :
       \E up \in IF SearchFetches(body, key) THEN SearchUpstreams ELSE {NoFetch} :
         /\ req' = Request("search", body, key, up)
         /\ resp' = SearchJobsRoute(body, key, up, perm, rnd)
  /\ UNCHANGED outsideRoutes

(***************************************************************************)
(* The simplify-job route (results/page.tsx, lines 500-737) and the        *)
(* training-plan route (training-plan/route.ts)                            *)
(***************************************************************************)
\* a ?? b
Nullish(v) == v.t \in {"undefined", "null"}
Coalesce(a, b) == IF Nullish(a) THEN b ELSE a

\* parseModelResponse(content) of the simplify-job route, which the
\* training-plan route repeats word for word; JNull is its null.
parseRecord(s) ==
  IF s = <<>> THEN JNull
  ELSE LET direct == JSONParse(s) IN
       IF direct.ok THEN direct.v
       ELSE LET bs == BracketSlice(s, "{", "}") IN
            IF ~bs.found THEN JNull
            ELSE LET sliced == JSONParse(bs.text)
                 IN IF sliced.ok THEN sliced.v ELSE JNull

StringArray(items) == JArr([i \in DOMAIN items |-> JStr(<<items[i]>>)])

FALLBACK_SIMPLIFIED_JOB ==
  [jobTitle |-> JStr(<<"Community Support Assistant">>),
   simplifiedDescription |-> JStr(<<"Help a neighborhood non-profit greet visitors">>),
   keyQualifications |->
     StringArray(<<"Friendly, patient communication style",
                   "Comfort using a tablet checklist (training provided)",
                   "Reliable attendance for a 4-hour weekday shift">>),
   accommodations |->
     StringArray(<<"Adjustable chair with lumbar support",
                   "Frequent micro-breaks to manage pain or fatigue",
                   "Clear written instructions for every shift task">>),
   trainingSuggestions |->
     StringArray(<<"Watch a 15-minute video on welcoming clients",
                   "Practice basic tablet navigation",
                   "Shadow another assistant for the first two shifts">>),
   tone |-> JStr(<<"encouraging">>),
   provider |-> "fallback"]

RecordResponse(record, fetched) ==
  Response(200, "record", "", <<>>, record, fetched, "none")

\* The typedResponse with the provider of the static record.
SimplifiedJobUnlabelled(parsed, payload) ==
  [jobTitle |-> Coalesce(Member(parsed, "jobTitle:"),
                         Coalesce(Member(payload, "jobTitle:"), JStr(<<"Job Opportunity">>))),
   simplifiedDescription |-> Coalesce(Member(parsed, "simplifiedDescription:"), JStr(<<>>)),
   keyQualifications |-> Coalesce(Member(parsed, "keyQualifications:"), JArr(<<>>)),
   accommodations |-> Coalesce(Member(parsed, "accommodations:"), JArr(<<>>)),
   trainingSuggestions |-> Coalesce(Member(parsed, "trainingSuggestions:"), JArr(<<>>)),
   tone |-> Coalesce(Member(parsed, "tone:"), JStr(<<"encouraging">>)),
   provider |-> "fallback"]

\* The typedResponse of the simplify-job route (lines 720-728).
SimplifiedJob(parsed, payload) ==
  [jobTitle |-> Coalesce(Member(parsed, "jobTitle:"),
                         Coalesce(Member(payload, "jobTitle:"), JStr(<<"Job Opportunity">>))),
   simplifiedDescription |-> Coalesce(Member(parsed, "simplifiedDescription:"), JStr(<<>>)),
   keyQualifications |-> Coalesce(Member(parsed, "keyQualifications:"), JArr(<<>>)),
   accommodations |-> Coalesce(Member(parsed, "accommodations:"), JArr(<<>>)),
   trainingSuggestions |-> Coalesce(Member(parsed, "trainingSuggestions:"), JArr(<<>>)),
   tone |-> Coalesce(Member(parsed, "tone:"), JStr(<<"encouraging">>)),
   provider |-> "gemini"]

\* The simplify-job route without the catch of lines 731-736: an upstream
\* failure answers 500.
SimplifyJobRouteUncaught(body, key, up) ==
  IF ~body.valid THEN ErrorResponse(400, "Invalid JSON body.")
  ELSE IF Falsy(Member(body.v, "jobDescription:")) \/ Member(body.v, "jobDescription:").t # "str"
  THEN ErrorResponse(400, "jobDescription is required.")
  ELSE IF ~key THEN RecordResponse(FALLBACK_SIMPLIFIED_JOB, FALSE)
  ELSE IF up.kind # "ok" THEN [UncaughtException EXCEPT !.fetched = TRUE]
  ELSE CHOOSE r \in
         {IF Falsy(parsed) THEN [UncaughtException EXCEPT !.fetched = TRUE]
          ELSE RecordResponse(SimplifiedJob(parsed, body.v), TRUE) :
            parsed \in {parseRecord(text) : text \in {extractGeminiText(up.candidates)}}} : TRUE

\* The simplify-job route with the key test before the jobDescription test.
SimplifyJobRouteKeyFirst(body, key, up) ==
  IF ~body.valid THEN ErrorResponse(400, "Invalid JSON body.")
  ELSE IF ~key THEN RecordResponse(FALLBACK_SIMPLIFIED_JOB, FALSE)
  ELSE IF Falsy(Member(body.v, "jobDescription:")) \/ Member(body.v, "jobDescription:").t # "str"
  THEN ErrorResponse(400, "jobDescription is required.")
  ELSE IF up.kind # "ok" THEN RecordResponse(FALLBACK_SIMPLIFIED_JOB, TRUE)
  ELSE CHOOSE r \in
         {IF Falsy(parsed) THEN RecordResponse(FALLBACK_SIMPLIFIED_JOB, TRUE)
          ELSE RecordResponse(SimplifiedJob(parsed, body.v), TRUE) :
            parsed \in {parseRecord(text) : text \in {extractGeminiText(up.candidates)}}} : TRUE

\* POST of the simplify-job route.
SimplifyJobRoute(body, key, up) ==
  IF ~body.valid THEN ErrorResponse(400, "Invalid JSON body.")
  ELSE IF Falsy(Member(body.v, "jobDescription:")) \/ Member(body.v, "jobDescription:").t # "str"
  THEN ErrorResponse(400, "jobDescription is required.")
  ELSE IF ~key THEN RecordResponse(FALLBACK_SIMPLIFIED_JOB, FALSE)
  ELSE IF up.kind # "ok" THEN RecordResponse(FALLBACK_SIMPLIFIED_JOB, TRUE)
  ELSE CHOOSE r \in
         {IF Falsy(parsed) THEN RecordResponse(FALLBACK_SIMPLIFIED_JOB, TRUE)
          ELSE RecordResponse(SimplifiedJob(parsed, body.v), TRUE) :
            parsed \in {parseRecord(text) : text \in {extractGeminiText(up.candidates)}}} : TRUE

SimplifyFetches(body, key) == SimplifyJobRoute(body, key, NotOk).fetched

FALLBACK_PLAN ==
  [summary |-> JStr(<<"Focus on light-duty roles such as front desk support or retail greeter.">>),
   phases |->
     JArr(<<JObj(<< <<"title:", JStr(<<"Foundation & Confidence">>)>> >>),
            JObj(<< <<"title:", JStr(<<"Job-Specific Skills">>)>> >>),
            JObj(<< <<"title:", JStr(<<"Interview & Placement">>)>> >>)>>),
   successMetrics |->
     StringArray(<<"Able to greet visitors confidently without relying on a script",
                   "Completes mock check-in tasks in under 5 minutes",
                   "Identifies at least two accommodations to request during onboarding">>),
   encouragement |-> JStr(<<"Progress is steady and flexible">>),
   provider |-> "fallback"]

\* value?.length taken as a condition, and value?.length === 0
LengthTruthy(v) ==
  \/ v.t = "arr" /\ v.a # <<>>
  \/ v.t = "str" /\ v.s # <<>>
  \/ v.t = "obj" /\ ~Falsy(Member(v, "length:"))
LengthIsZero(v) ==
  \/ v.t = "arr" /\ v.a = <<>>
  \/ v.t = "str" /\ v.s = <<>>
  \/ v.t = "obj" /\ Member(v, "length:") = JLit("0")

\* The typedResponse of the training-plan route (lines 285-294).
TrainingPlan(parsed) ==
  [summary |-> Coalesce(Member(parsed, "summary:"), FALLBACK_PLAN.summary),
   phases |-> IF LengthTruthy(Member(parsed, "phases:"))
              THEN Member(parsed, "phases:") ELSE FALLBACK_PLAN.phases,
   successMetrics |->
     IF LengthIsZero(Member(parsed, "successMetrics:"))
     THEN FALLBACK_PLAN.successMetrics
     ELSE Coalesce(Member(parsed, "successMetrics:"), FALLBACK_PLAN.successMetrics),
   encouragement |-> Coalesce(Member(parsed, "encouragement:"), FALLBACK_PLAN.encouragement),
   provider |-> "gemini"]

\* The training-plan route calling fetch before it tests the key.
TrainingPlanRouteFetchFirst(body, key, up) ==
  IF ~body.valid THEN ErrorResponse(400, "Invalid JSON body.")
  ELSE IF Falsy(Member(body.v, "jobTitle:")) /\ Falsy(Member(body.v, "currentSkills:"))
  THEN ErrorResponse(400, "Provide at least jobTitle or currentSkills.")
  ELSE IF ~key \/ up.kind # "ok" THEN RecordResponse(FALLBACK_PLAN, TRUE)
  ELSE CHOOSE r \in
         {IF Falsy(parsed) THEN RecordResponse(FALLBACK_PLAN, TRUE)
          ELSE RecordResponse(TrainingPlan(parsed), TRUE) :
            parsed \in {parseRecord(text) : text \in {extractGeminiText(up.candidates)}}} : TRUE

\* The training-plan route asking for both jobTitle and currentSkills.
TrainingPlanRouteBothRequired(body, key, up) ==
  IF ~body.valid THEN ErrorResponse(400, "Invalid JSON body.")
  ELSE IF Falsy(Member(body.v, "jobTitle:")) \/ Falsy(Member(body.v, "currentSkills:"))
  THEN ErrorResponse(400, "Provide at least jobTitle or currentSkills.")
  ELSE IF ~key THEN RecordResponse(FALLBACK_PLAN, FALSE)
  ELSE IF up.kind # "ok" THEN RecordResponse(FALLBACK_PLAN, TRUE)
  ELSE CHOOSE r \in
         {IF Falsy(parsed) THEN RecordResponse(FALLBACK_PLAN, TRUE)
          ELSE RecordResponse(TrainingPlan(parsed), TRUE) :
            parsed \in {parseRecord(text) : text \in {extractGeminiText(up.candidates)}}} : TRUE

\* POST of training-plan/route.ts.
TrainingPlanRoute(body, key, up) ==
  IF ~body.valid THEN ErrorResponse(400, "Invalid JSON body.")
  ELSE IF Falsy(Member(body.v, "jobTitle:")) /\ Falsy(Member(body.v, "currentSkills:"))
  THEN ErrorResponse(400, "Provide at least jobTitle or currentSkills.")
  ELSE IF ~key THEN RecordResponse(FALLBACK_PLAN, FALSE)
  ELSE IF up.kind # "ok" THEN RecordResponse(FALLBACK_PLAN, TRUE)
  ELSE CHOOSE r \in
         {IF Falsy(parsed) THEN RecordResponse(FALLBACK_PLAN, TRUE)
          ELSE RecordResponse(TrainingPlan(parsed), TRUE) :
            parsed \in {parseRecord(text) : text \in {extractGeminiText(up.candidates)}}} : TRUE

TrainingFetches(body, key) == TrainingPlanRoute(body, key, NotOk).fetched

SimplifiedObject ==
  <<"{", "jobTitle:", Quote, "Greeter", Quote, ",",
    "simplifiedDescription:", Quote, "Welcome", Space, "visitors", Quote, "}">>
PlanObject ==
  <<"{", "summary:", Quote, "Start", Space, "small", Quote, ",", "phases:", "[", "{", "}", "]", ",",
    "successMetrics:", "[", Quote, "Greets", Quote, "]", ",",
    "encouragement:", Quote, "Keep", Space, "going", Quote, "}">>

\* Completions the generative call of the two routes answers with.
RecordContents ==
  {SimplifiedObject, PlanObject,
   <<"{", "}">>,
   <<"x", Space>> \o SimplifiedObject,
   <<Fence, "json", Newline>> \o PlanObject \o <<Newline, Fence>>,
   <<"{", "jobTitle:", "null", ",", "summary:", "null", ",", "phases:", "[", "]", ",",
     "successMetrics:", "[", "]", "}">>,
   <<"x">>, <<"{", "x", "}">>, <<"}", "{">>,
   <<"null">>, <<"0">>, <<"false">>, <<Quote, Quote>>,
   <<"5">>, <<"true">>, <<"[", "]">>, <<Quote, "Sure", Quote>>}

RecordUpstreams ==
  UpstreamFailures
    \cup {OkText(c) : c \in RecordContents}
    \cup {OkData(<<>>), OkData(<<NoPartsCandidate>>), OkData(<<Candidate(<<NoTextPart>>)>>),
          OkData(<<Candidate(<<Part(<<Space>>), Part(<<Newline>>)>>)>>),
          OkData(<<NoPartsCandidate, Candidate(<<Part(SimplifiedObject)>>)>>),
          OkData(<<Candidate(<<Part(<<"{", "summary:", Quote, "Start", Quote>>), Part(<<"}">>)>>)>>)}

SimplifyPayload(description, title) ==
  JObj(<< <<"jobDescription:", description>>, <<"jobTitle:", title>> >>)
SimplifyBodies ==
  {InvalidJsonBody, Body(TRUE, JNull), Body(TRUE, JObj(<<>>))}
    \cup {Body(TRUE, SimplifyPayload(d, t)) :
            d \in {JUndefined, JNull, JStr(<<>>), JLit("5"), JArr(<<>>),
                   JStr(<<"Answer", Space, "phones">>), JStr(<<Space>>)},
            t \in {JUndefined, JNull, JStr(<<"Clerk">>)}}

TrainingPayload(title, skills) ==
  JObj(<< <<"jobTitle:", title>>, <<"currentSkills:", skills>> >>)
TrainingBodies ==
  {InvalidJsonBody, Body(TRUE, JNull), Body(TRUE, JObj(<<>>))}
    \cup {Body(TRUE, TrainingPayload(t, k)) :
            t \in {JUndefined, JStr(<<>>), JStr(<<"Clerk">>), JLit("5")},
            k \in {JUndefined, JNull, JStr(<<>>), JArr(<<>>), StringArray(<<"typing">>)}}

SimplifyJobPOST ==
  /\ req.route = "none"
  /\ \E body \in SimplifyBodies, key \in BOOLEAN :
       \E up \in IF SimplifyFetches(body, key) THEN RecordUpstreams ELSE {NoFetch} :
         /\ req' = Request("simplify", body, key, up)
         /\ resp' = SimplifyJobRoute(body, key, up)
  /\ UNCHANGED outsideRoutes

TrainingPlanPOST ==
  /\ req.route = "none"
  /\ \E body \in TrainingBodies, key \in BOOLEAN :
       \E up \in IF TrainingFetches(body, key) THEN RecordUpstreams ELSE {NoFetch} :
         /\ req' = Request("training", body, key, up)
         /\ resp' = TrainingPlanRoute(body, key, up)
  /\ UNCHANGED outsideRoutes

RoutesNext == SearchJobsPOST \/ SimplifyJobPOST \/ TrainingPlanPOST

(***************************************************************************)
(* The location input (LocationAutocomplete, page.tsx:110-343)             *)
(*                                                                         *)
(* A query is a sequence of characters. A change of the input and the      *)
(* debounce effect it triggers are one step: React runs the effects of a   *)
(* discrete input event before it handles the next event. A timer that     *)
(* fires issues its request at once; the answer is applied in a later      *)
(* step, after the awaits of the callback.                                 *)
(***************************************************************************)
NullTimer == 0

\* The texts typed into the input.
TypedQueries == {<<>>, <<"s">>, <<"s", "a">>, <<"s", "d">>}

\* How a search request can end: the fetch rejects, the status is not 2xx,
\* the body is not JSON, is not an array, is an empty array, or holds places.
SearchOutcomes == {"netErr", "notOk", "badJson", "notArray", "empty", "places"}

\* The formatted, de-duplicated results for an answer that holds places: one
\* place whose city is the text of the query, in the state CA (line 195).
formattedResults(q) == <<q \o <<",", Space, "CA">>>>

\* A callback that leaves suggestions alone unless its query is still the
\* current one.
SuggestionsIfCurrent(q, outcome) ==
  IF q # searchQuery THEN suggestions
  ELSE IF outcome = "places" THEN formattedResults(q) ELSE <<>>

\* What the timer callback hands to setSuggestions: every exit of the try
\* block sets [] except the last, which sets the results (lines 165-223).
SuggestionsAfter(q, outcome) ==
  IF outcome = "places" THEN formattedResults(q) ELSE <<>>

\* A clearTimeout that cancels nothing.
clearTimeoutNoop(pending, id) == pending

\* clearTimeout(id): the timer leaves the pending set; a timer that has
\* fired, and null, are ignored.
clearTimeout(pending, id) == {t \in pending : t.id # id}

RemoveAt(list, i) == [k \in 1..(Len(list) - 1) |-> IF k < i THEN list[k] ELSE list[k + 1]]

AutoInit ==
  /\ searchQuery = <<>>
  /\ suggestions = <<>>
  /\ acIsLoading = FALSE
  /\ debounceTimerRef = NullTimer
  /\ timers = {}
  /\ nextTimerId = 1
  /\ inFlight = <<>>

\* The cleanup of the previous run of the debounce effect (lines 229-233),
\* then its body for the new query q (lines 136-227).
DebounceEffect(q) ==
  LET kept == clearTimeout(clearTimeout(timers, debounceTimerRef), debounceTimerRef) IN
  IF Len(q) < 2
  THEN /\ suggestions' = <<>>
       /\ acIsLoading' = FALSE
       /\ timers' = kept
       /\ UNCHANGED <<debounceTimerRef, nextTimerId>>
  ELSE /\ acIsLoading' = TRUE
       /\ timers' = kept \cup {[id |-> nextTimerId, q |-> q]}
       /\ debounceTimerRef' = nextTimerId
       /\ nextTimerId' = nextTimerId + 1
       /\ UNCHANGED suggestions

\* The query changes to q: setSearchQuery(q), onChange(q), then the effect.
ChangeQuery(q) ==
  /\ q # searchQuery
  /\ Len(q) >= 2 => nextTimerId <= MaxTimers
  /\ searchQuery' = q
  /\ location' = q
  /\ DebounceEffect(q)
  /\ UNCHANGED inFlight
  /\ UNCHANGED <<fName, fGender, fHomeless, fRace, interests, disabilities,
                 medicalConditions, formErrors, formIsLoading, formPc>>
  /\ UNCHANGED outsideAuto

\* handleInputChange: the user edits the text.
HandleInputChange == \E q \in TypedQueries : ChangeQuery(q)

\* handleSelect: the user picks one of the suggestions shown.
HandleSelectSuggestion == \E i \in DOMAIN suggestions : ChangeQuery(suggestions[i])

\* A debounce timer fires: its callback runs up to the await of its fetch,
\* with the query of the render that scheduled it.
TimerFires ==
  /\ \E t \in timers :
       /\ timers' = timers \ {t}
       /\ inFlight' = Append(inFlight, [q |-> t.q])
  /\ UNCHANGED <<searchQuery, suggestions, acIsLoading, debounceTimerRef, nextTimerId>>
  /\ UNCHANGED <<formVars, outsideAuto>>

\* A search request is answered (or fails): the rest of the callback runs,
\* setSuggestions(...) and, in its finally block, setIsLoading(false).
ResponseArrives ==
  /\ \E i \in DOMAIN inFlight, o \in SearchOutcomes :
       /\ suggestions' = SuggestionsAfter(inFlight[i].q, o)
       /\ inFlight' = RemoveAt(inFlight, i)
  /\ acIsLoading' = FALSE
  /\ UNCHANGED <<searchQuery, debounceTimerRef, timers, nextTimerId>>
  /\ UNCHANGED <<formVars, outsideAuto>>

AutoNext == HandleInputChange \/ HandleSelectSuggestion \/ TimerFires \/ ResponseArrives

(***************************************************************************)
(* Specifications                                                          *)
(***************************************************************************)
\* The results view's aggregator.
InitView == ViewInit /\ FormInit /\ TokenInit /\ ParseOff /\ RoutesInit /\ AutoInit
SpecView == InitView /\ [][ViewNext]_vars

\* The form, the token it builds and the decoding of the data parameter.
InitToken == ViewOff /\ FormInit /\ TokenInit /\ ParseOff /\ RoutesInit /\ AutoInit
SpecToken == InitToken /\ [][TokenNext]_vars

\* The validated inputs of the form and its submit handler, with the
\* 1500 ms timer of the handler always firing: the rest of onSubmit runs
\* once its await is over.
SubmitNext ==
  \/ EditName
  \/ PickGender
  \/ PickHomeless
  \/ ToggleRace
  \/ EditLocation
  \/ Submit
  \/ Navigate
SpecSubmit == InitToken /\ [][SubmitNext]_vars /\ WF_vars(Navigate)

\* The three API routes, one request each.
InitRoutes == ViewOff /\ FormInit /\ TokenInit /\ ParseOff /\ RoutesInit /\ AutoInit
SpecRoutes == InitRoutes /\ [][RoutesNext]_vars

\* parseModelResponse of the job-search adapter applied to a completion.
InitParse == ViewOff /\ FormInit /\ TokenInit /\ ParseInit /\ RoutesInit /\ AutoInit
SpecParse == InitParse /\ [][ParseNext]_vars

\* The location input on its own.
InitAuto == ViewOff /\ FormInit /\ TokenInit /\ ParseOff /\ RoutesInit /\ AutoInit
SpecAuto == InitAuto /\ [][AutoNext]_vars

(***************************************************************************)
(* Claims about the results view                                           *)
(***************************************************************************)

\* C1 (as stated): isLoading is false only when no call dispatched by the run
\* (the job search, a listing's simplify or training-plan call) is pending.
C1_LoadingClearsOnlyWhenAllSettled ==
  ~isLoading => ~AnyCallPending

\* C2 (as stated): a failing simplify or training-plan call is absorbed at the
\* call: no per-listing promise ends rejected and fetchAll's catch block is
\* never reached from the enrichment stage.
C2_FailureAbsorbedAtCall ==
  /\ exitVia # "catchEnrich"
  /\ \A i \in DOMAIN simplifyCall :
       ~CallRejected(simplifyCall[i]) /\ ~CallRejected(trainingCall[i])

\* C3 (as stated): in a mounted view, once every dispatched call has settled,
\* isLoading is false and every listing id has a simplifiedDescriptions entry
\* and a trainingPlans entry.
C3_AllSettledAllEnriched ==
  (isMounted /\ pc = "done" /\ ~AnyCallPending) =>
    /\ ~isLoading
    /\ \A i \in Listings :
         /\ jobs[i] \in DOMAIN simplifiedDescriptions
         /\ jobs[i] \in DOMAIN trainingPlans

(***************************************************************************)
(* Claims about the profile token                                          *)
(***************************************************************************)
SetOf(list) == {list[i] : i \in DOMAIN list}

\* The token came from the form's submit handler and has been decoded.
FormTokenDecoded == origin = "form" /\ profile # NoProfile

\* C4 (as stated): decoding the token built by the submit handler yields the
\* submitted race, interests, disabilities and medicalConditions as sets and
\* the submitted name, gender, homeless and location strings.
C4_TokenRoundTrip ==
  FormTokenDecoded =>
    /\ profile.kind = "profile"
    /\ SetOf(profile.p.race) = {<<r>> : r \in fRace}
    /\ SetOf(profile.p.interests) = SetOf(interests)
    /\ SetOf(profile.p.disabilities) = SetOf(disabilities)
    /\ SetOf(profile.p.medicalConditions) = SetOf(medicalConditions)
    /\ profile.p.name = JStr(fName)
    /\ profile.p.gender = JStr(<<fGender>>)
    /\ profile.p.homeless = JStr(<<fHomeless>>)
    /\ profile.p.location = JStr(location)

\* C5: decodeUserProfile never throws to its caller: whatever string the data
\* parameter holds, the result is a profile record or null.
C5_DecodeNeverThrows ==
  profile.kind \in {"none", "null", "profile"}

\* C5 witness: a hand-made token whose race field makes safeParseArray throw
\* has been decoded, to null.
C5_Witness_ThrowCaught ==
  /\ origin = "url"
  /\ dataParam.json
  /\ ~safeParseArray(Member(dataParam.v, "race")).ok
  /\ profile = NullProfile

(***************************************************************************)
(* Claims about the job-search adapter's parser                            *)
(***************************************************************************)
\* The completion is a JSON array wrapped in one fenced code block.
IsFencedArray(s) ==
  /\ Len(s) >= 2
  /\ s[1] = Fence
  /\ s[Len(s)] = Fence
  /\ \A i \in 2..(Len(s) - 1) : s[i] # Fence
  /\ FenceMatch(s).matched
  /\ JSONParse(FenceMatch(s).group).ok
  /\ JSONParse(FenceMatch(s).group).v.t = "arr"

\* C6 (as stated): a completion that is a JSON array in a fenced block,
\* with or without the json tag, parses to that array.
C6_FencedArrayParses ==
  (parsedJobs.done /\ IsFencedArray(content)) =>
    parsedJobs.v = JSONParse(FenceMatch(content).group).v

(***************************************************************************)
(* Claims about the three API routes                                       *)
(***************************************************************************)
\* The request is one the route does not answer 400 to, by the route's rule.
ValidRecordRequest ==
  /\ req.body.valid
  /\ \/ /\ req.route = "simplify"
        /\ Member(req.body.v, "jobDescription:").t = "str"
        /\ Member(req.body.v, "jobDescription:").s # <<>>
     \/ /\ req.route = "training"
        /\ \/ ~Falsy(Member(req.body.v, "jobTitle:"))
           \/ ~Falsy(Member(req.body.v, "currentSkills:"))

\* The text has no JSON value in it: neither the whole text nor its slice
\* from the first { to the last } parses.
Unparsable(text) ==
  /\ text # <<>>
  /\ ~JSONParse(text).ok
  /\ \/ ~BracketSlice(text, "{", "}").found
     \/ ~JSONParse(BracketSlice(text, "{", "}").text).ok

\* The upstream call failed: fetch threw, the status was not 2xx, the body
\* was not JSON, no candidate had text, or the completion was unparsable.
UpstreamFailed ==
  \/ req.up.kind \in {"fetchThrows", "notOk", "badBody"}
  \/ /\ req.up.kind = "ok"
     /\ \/ extractGeminiText(req.up.candidates) = <<>>
        \/ Unparsable(extractGeminiText(req.up.candidates))

StaticFallback == IF req.route = "simplify" THEN FALLBACK_SIMPLIFIED_JOB ELSE FALLBACK_PLAN

\* C7: for a valid request with an API key, whenever the upstream call
\* fails, the simplify-job and training-plan routes answer 200 with exactly
\* their static fallback record, whose provider is "fallback".
C7_UpstreamFailureServesFallback ==
  (req.route \in {"simplify", "training"} /\ req.key /\ ValidRecordRequest /\ UpstreamFailed)
    => /\ resp.status = 200
       /\ resp.kind = "record"
       /\ resp.record = StaticFallback
       /\ resp.record.provider = "fallback"

\* C7 happens: the training-plan route, with a key, had its fetch throw and
\* answered the static plan.
C7_Witness_FetchThrew ==
  /\ req.route = "training"
  /\ req.key
  /\ ValidRecordRequest
  /\ req.up = FetchThrows
  /\ resp.fetched
  /\ resp.status = 200
  /\ resp.record = FALLBACK_PLAN

\* C8 (as stated): the job-search route answers 400 exactly when the body
\* is not valid JSON or location is missing or empty (here: any falsy
\* value), and 200 in every other case; no exception leaves the handler.
C8_StatusIs400Or200 ==
  req.route = "search" =>
    resp.status = IF ~req.body.valid \/ Falsy(Member(req.body.v, "location:"))
                  THEN 400 ELSE 200

\* The location is of the form "City, ST".
IsCityST(loc) ==
  \E k \in 2..(Len(loc) - 2) :
    LET city == SubSeq(loc, 1, k - 1)
        st == SubSeq(loc, k + 2, Len(loc))
    IN /\ loc[k] = ","
       /\ loc[k + 1] = Space
       /\ \A i \in DOMAIN city : city[i] # ","
       /\ \A i \in DOMAIN st : st[i] # ","
       /\ Trim(city) = city
       /\ Trim(st) = st
       /\ city # <<>>
       /\ st # <<>>

\* Listings i and j of a list have different ids.
PairwiseDistinctIds(list) ==
  \A i, j \in DOMAIN list : i # j => list[i].id # list[j].id

\* The listing is template k of the catalog for a location, but for its id.
IsTemplate(listing, k, loc) ==
  [listing EXCEPT !.id = JNull] = [baseJobs(loc)[k] EXCEPT !.id = JNull]

\* C9: with no API key and a "City, ST" location the job-search route
\* answers 200 with exactly 5 listings, of pairwise distinct ids, that are 5
\* distinct templates of the catalog of ten, each located at the requested
\* location.
C9_FiveDistinctTemplates ==
  (/\ req.route = "search"
   /\ ~req.key
   /\ req.body.valid
   /\ Member(req.body.v, "location:").t = "str"
   /\ IsCityST(Member(req.body.v, "location:").s))
    => /\ resp.status = 200
       /\ Len(resp.jobs) = 5
       /\ PairwiseDistinctIds(resp.jobs)
       /\ \E pick \in [1..5 -> 1..10] :
            /\ \A i, j \in 1..5 : i # j => pick[i] # pick[j]
            /\ \A i \in 1..5 :
                 IsTemplate(resp.jobs[i], pick[i], Member(req.body.v, "location:").s)
       /\ \A i \in 1..5 : resp.jobs[i].location = Member(req.body.v, "location:")

\* C9 happens: a keyless request for "a, a" was answered with listings.
C9_Witness_KeylessCityST ==
  /\ req.route = "search"
  /\ ~req.key
  /\ req.body.valid
  /\ Member(req.body.v, "location:") = JStr(<<"a", ",", Space, "a">>)
  /\ resp.status = 200
  /\ resp.served = "hardcoded"

\* The generative call of the job-search request threw or gave no record.
GenerativeCallThrewOrEmpty ==
  \/ req.up.kind \in {"fetchThrows", "notOk", "badBody"}
  \/ /\ req.up.kind = "ok"
     /\ parseJobs(extractGeminiText(req.up.candidates)) = EmptyArray

\* C10 (as stated): the job-search route serves the hardcoded listings when
\* there is no key, when the generative call throws and when it returns no
\* record; every 200 response carries between 1 and 5 listings of pairwise
\* distinct ids.
C10_FallbackAndDistinctIds ==
  (req.route = "search" /\ resp.status = 200)
    => /\ (~req.key \/ GenerativeCallThrewOrEmpty) => resp.served = "hardcoded"
       /\ Len(resp.jobs) \in 1..5
       /\ PairwiseDistinctIds(resp.jobs)

\* C11: with no API key configured, none of the three routes calls fetch:
\* the request is answered without an upstream call.
C11_NoKeyNoFetch ==
  (req.route # "none" /\ ~req.key) => (~resp.fetched /\ req.up = NoFetch)

\* C11 happens: each route has answered 200 to a keyless request; here the
\* training-plan route, with its static plan.
C11_Witness_KeylessFallback ==
  /\ req.route = "training"
  /\ ~req.key
  /\ resp.status = 200
  /\ resp.record = FALLBACK_PLAN
  /\ ~resp.fetched

(***************************************************************************)
(* Further claims about the results view                                   *)
(***************************************************************************)
\* C12 (as stated): the page-level error is non-null only if the job-search
\* stage gave no listing; a failed simplify or training-plan call never sets
\* it.
C12_ErrorOnlyWithoutListings ==
  error # "null" => jobs = <<>>

\* The effect's cleanup has run for the run of fetchAll that was started.
CleanedUp == pc \in {"jobs", "enrich", "done"} /\ ~isMounted

\* C13: once the cleanup has run, no call of that run writes jobs,
\* simplifiedDescriptions, trainingPlans, error or isLoading when it
\* completes; the cleanup itself aborts nothing: the calls in flight stay in
\* flight.
C13_NoWriteAfterCleanup ==
  [][/\ CleanedUp =>
          UNCHANGED <<jobs, simplifiedDescriptions, trainingPlans, error, isLoading>>
     /\ (isMounted /\ ~isMounted') => UNCHANGED <<pc, simplifyCall, trainingCall>>]_vars

\* C13 happens: both calls of a listing completed after the cleanup, and
\* the listing has no entry.
C13_Witness_SettledAfterCleanup ==
  /\ CleanedUp
  /\ isLoading
  /\ \E i \in DOMAIN simplifyCall :
       /\ TaskFulfilled(simplifyCall, trainingCall, i)
       /\ jobs[i] \notin DOMAIN simplifiedDescriptions
       /\ jobs[i] \notin DOMAIN trainingPlans

(***************************************************************************)
(* Further claims about the API routes                                     *)
(***************************************************************************)
\* The upstream call of the request was made and its completion holds a
\* JSON value the routes take as a record (a truthy one).
CompletionParsed ==
  /\ req.key
  /\ req.up.kind = "ok"
  /\ extractGeminiText(req.up.candidates) # <<>>
  /\ ~Unparsable(extractGeminiText(req.up.candidates))
  /\ ~Falsy(parseRecord(extractGeminiText(req.up.candidates)))

\* C14: in every 200 response of the simplify-job and training-plan routes
\* the provider is "fallback" exactly when the static record was returned,
\* and "gemini" exactly when an upstream completion was fetched and parsed.
C14_ProviderTellsPath ==
  (req.route \in {"simplify", "training"} /\ resp.status = 200)
    => /\ resp.record.provider \in {"fallback", "gemini"}
       /\ resp.record.provider = "fallback" <=> resp.record = StaticFallback
       /\ resp.record.provider = "fallback" <=> ~CompletionParsed
       /\ resp.record.provider = "gemini" <=> (resp.fetched /\ CompletionParsed)

\* C14 happens: the simplify-job route answered a record made from a
\* completion.
C14_Witness_Generated ==
  /\ req.route = "simplify"
  /\ resp.status = 200
  /\ resp.record.provider = "gemini"
  /\ resp.record # FALLBACK_SIMPLIFIED_JOB
  /\ resp.record.jobTitle = JStr(<<"Greeter">>)

\* C16: the simplify-job route answers 400 with an error payload whenever
\* jobDescription is missing, empty or not a string, with or without an API
\* key, and calls no upstream then.
C16_BadDescriptionIs400 ==
  (/\ req.route = "simplify"
   /\ req.body.valid
   /\ \/ Falsy(Member(req.body.v, "jobDescription:"))
      \/ Member(req.body.v, "jobDescription:").t # "str")
    => /\ resp.status = 400
       /\ resp.kind = "error"
       /\ resp.error # ""
       /\ ~resp.fetched
       /\ req.up = NoFetch

\* C16 happens: with a key configured, a jobDescription that is a number was
\* answered 400.
C16_Witness_NumberDescription ==
  /\ req.route = "simplify"
  /\ req.key
  /\ Member(req.body.v, "jobDescription:") = JLit("5")
  /\ resp.status = 400

\* C17: the training-plan route answers 400 exactly when the body is not
\* valid JSON or neither jobTitle nor currentSkills holds a truthy value, and
\* 200 with a training-plan record in every other case.
C17_400WhenNeitherGiven ==
  req.route = "training" =>
    IF ~req.body.valid
         \/ (Falsy(Member(req.body.v, "jobTitle:"))
               /\ Falsy(Member(req.body.v, "currentSkills:")))
    THEN resp.status = 400 /\ resp.kind = "error"
    ELSE /\ resp.status = 200
         /\ resp.kind = "record"
         /\ resp.record.provider \in {"fallback", "gemini"}
         /\ DOMAIN resp.record =
              {"summary", "phases", "successMetrics", "encouragement", "provider"}

\* C17 (as stated): 400 exactly when the body is not valid JSON or both
\* jobTitle and currentSkills are absent, 200 in every other case.
C17_400ExactlyWhenBothAbsent ==
  req.route = "training" =>
    resp.status =
      IF ~req.body.valid
           \/ (Nullish(Member(req.body.v, "jobTitle:"))
                 /\ Nullish(Member(req.body.v, "currentSkills:")))
      THEN 400 ELSE 200

\* C17 happens: an empty currentSkills array alone is enough for a 200.
C17_Witness_EmptySkillsArray ==
  /\ req.route = "training"
  /\ Falsy(Member(req.body.v, "jobTitle:"))
  /\ Member(req.body.v, "currentSkills:") = JArr(<<>>)
  /\ resp.status = 200
  /\ resp.kind = "record"

\* Every listing of a list has a non-empty value in each of its six fields.
ListingsComplete(list) ==
  \A i \in DOMAIN list :
    /\ ~Falsy(list[i].id)
    /\ ~Falsy(list[i].title)
    /\ ~Falsy(list[i].employer)
    /\ ~Falsy(list[i].description)
    /\ ~Falsy(list[i].pay)
    /\ ~Falsy(list[i].location)

\* Every field of the simplified-job record type is defined in the record.
SimplifiedComplete(record) ==
  /\ DOMAIN record = {"jobTitle", "simplifiedDescription", "keyQualifications",
                      "accommodations", "trainingSuggestions", "tone", "provider"}
  /\ \A f \in DOMAIN record \ {"provider"} : ~Nullish(record[f])

\* Every field of the training-plan record type is defined in the record,
\* and phases and successMetrics are not empty.
PlanComplete(record) ==
  /\ DOMAIN record = {"summary", "phases", "successMetrics", "encouragement", "provider"}
  /\ \A f \in DOMAIN record \ {"provider"} : ~Nullish(record[f])
  /\ ~LengthIsZero(record.phases)
  /\ ~LengthIsZero(record.successMetrics)

\* C15 (as stated): no route returns a structurally incomplete record: the
\* listings of a job-search response have non-empty id, title, employer,
\* description, pay and location, and the 200 records of the other two
\* routes have every field defined, the plan's phases and successMetrics not
\* empty.
C15_NoIncompleteRecord ==
  resp.status = 200 =>
    /\ req.route = "search" => ListingsComplete(resp.jobs)
    /\ req.route = "simplify" => SimplifiedComplete(resp.record)
    /\ req.route = "training" => PlanComplete(resp.record)

(***************************************************************************)
(* Further claims about the results view                                   *)
(***************************************************************************)

\* C18: without a profile (data parameter absent or undecodable) the view
\* stays idle: the effect returns before fetchAll, so no job-search,
\* simplify or training-plan request is issued, isLoading stays false, jobs
\* stays empty and nothing is written; once the effect has returned no
\* further step of the view is possible (no retry).
C18_IdleWithoutProfile ==
  ~profileOk =>
    /\ pc \in {"idle", "skipped"}
    /\ ~isMounted
    /\ ~isLoading
    /\ jobs = <<>>
    /\ simplifyCall = <<>>
    /\ trainingCall = <<>>
    /\ simplifiedDescriptions = EmptyMap
    /\ trainingPlans = EmptyMap
    /\ error = "null"
    /\ (pc = "skipped" => ~ENABLED ViewNext)

C18_Witness_EffectReturned == ~profileOk /\ pc = "skipped"

\* C25: simplifiedDescriptions and trainingPlans have the same key set in
\* every reachable state, every entry belongs to a listing both of whose
\* calls have been fulfilled and holds that call's result, so no entry is
\* written for a listing whose simplify call failed or whose calls are
\* still pending.
C25_SameKeySet ==
  /\ DOMAIN simplifiedDescriptions = DOMAIN trainingPlans
  /\ \A k \in DOMAIN simplifiedDescriptions :
       \E i \in Listings :
         /\ jobs[i] = k
         /\ CallFulfilled(simplifyCall[i])
         /\ CallFulfilled(trainingCall[i])
         /\ simplifiedDescriptions[k] = simplifyCall[i]
         /\ trainingPlans[k] = trainingCall[i]

\* One listing has both entries and another, whose simplify call was
\* rejected, has none.
C25_Witness_OneEnrichedOneFailed ==
  \E i, j \in Listings :
    /\ jobs[i] # jobs[j]
    /\ jobs[i] \in DOMAIN simplifiedDescriptions
    /\ CallRejected(simplifyCall[j])
    /\ CallFulfilled(trainingCall[j])
    /\ jobs[j] \notin DOMAIN simplifiedDescriptions
    /\ jobs[j] \notin DOMAIN trainingPlans

(***************************************************************************)
(* Further claims about the form                                           *)
(***************************************************************************)

\* A list without a repeated element whose elements are all in a catalog.
UniqueCatalogList(list, options) ==
  /\ \A i, j \in DOMAIN list : list[i] = list[j] => i = j
  /\ SetOf(list) \subseteq options

\* The field of the token under a key, read back as a JSON array of strings.
TokenFieldIsUniqueCatalogList(key, options) ==
  LET parsed == JSONParse(Member(dataParam.v, key).s) IN
    /\ parsed.ok
    /\ parsed.v.t = "arr"
    /\ Len(FilterStrings(parsed.v.a)) = Len(parsed.v.a)
    /\ UniqueCatalogList(FilterStrings(parsed.v.a), options)

\* C19: after any sequence of select and remove operations the selected list
\* of each SearchableMultiSelect holds no duplicate and only strings of its
\* options catalog, and so do the interests, disabilities and
\* medical-conditions fields of the token the submit handler builds.
C19_SelectedUniqueFromCatalog ==
  /\ UniqueCatalogList(interests, interestOptions)
  /\ UniqueCatalogList(disabilities, disabilityOptions)
  /\ UniqueCatalogList(medicalConditions, medicalConditionOptions)
  /\ origin = "form" =>
       /\ TokenFieldIsUniqueCatalogList("interests", interestOptions)
       /\ TokenFieldIsUniqueCatalogList("disabilities", disabilityOptions)
       /\ TokenFieldIsUniqueCatalogList("medical-conditions", medicalConditionOptions)

C19_Witness_TwoInterestsInToken ==
  /\ origin = "form"
  /\ Len(interests) = 2
  /\ Len(disabilities) = 1
  /\ Member(dataParam.v, "interests") = JStr(StringifyStringArray(interests))

\* C20 (as stated): the contents of simplifiedDescriptions and trainingPlans
\* after every per-listing call has settled are fixed by the calls' results,
\* whatever the order of arrival: each listing whose calls were fulfilled has
\* its own results under its id, and no write removes or changes an entry
\* that is already in either map.
C20_OrderIndependentMaps ==
  /\ [](isMounted /\ pc = "done" /\ ~AnyCallPending =>
         \A i \in Listings :
           TaskFulfilled(simplifyCall, trainingCall, i) =>
             /\ jobs[i] \in DOMAIN simplifiedDescriptions
             /\ jobs[i] \in DOMAIN trainingPlans
             /\ simplifiedDescriptions[jobs[i]] = simplifyCall[i]
             /\ trainingPlans[jobs[i]] = trainingCall[i])
  /\ [][/\ \A k \in DOMAIN simplifiedDescriptions :
            /\ k \in DOMAIN simplifiedDescriptions'
            /\ simplifiedDescriptions'[k] = simplifiedDescriptions[k]
        /\ \A k \in DOMAIN trainingPlans :
            /\ k \in DOMAIN trainingPlans'
            /\ trainingPlans'[k] = trainingPlans[k]]_vars

(***************************************************************************)
(* Claims about the location input                                         *)
(***************************************************************************)

\* C21: every search response is applied to suggestions on arrival, with no
\* staleness check: for every request in flight, whatever the current query
\* and the other requests, the arrival of its places sets suggestions to
\* that request's results; so a response to an earlier query that arrives
\* after the response to a later one leaves the earlier query's results.
C21_ResponseAppliedUnconditionally ==
  \A i \in DOMAIN inFlight :
    ENABLED (/\ ResponseArrives
             /\ inFlight' = RemoveAt(inFlight, i)
             /\ suggestions' = formattedResults(inFlight[i].q))

\* Every request has been answered, the last one issued was for the current
\* query, and suggestions holds the results of another, earlier query.
C21_Witness_StaleResultsStay ==
  /\ Len(searchQuery) >= 2
  /\ timers = {}
  /\ inFlight = <<>>
  /\ suggestions # <<>>
  /\ suggestions # formattedResults(searchQuery)

\* C22: at most one debounce timer is pending at any time, it is the one
\* the ref holds and it carries the current query; a request is issued only
\* by the firing of that timer, for the query of the last change, and never
\* for a query shorter than 2 characters.
C22_SingleDebounceTimer ==
  /\ [](/\ Cardinality(timers) <= 1
        /\ \A t \in timers :
             t.id = debounceTimerRef /\ t.q = searchQuery /\ Len(t.q) >= 2
        /\ \A i \in DOMAIN inFlight : Len(inFlight[i].q) >= 2)
  /\ [][Len(inFlight') > Len(inFlight) =>
          /\ timers # {} /\ timers' = {}
          /\ Len(searchQuery) >= 2
          /\ inFlight' = Append(inFlight, [q |-> searchQuery])]_vars

\* Two timers were scheduled, the first was cleared by the second change,
\* and the second has fired and issued its request.
C22_Witness_SupersededTimerCleared ==
  /\ nextTimerId = 3
  /\ timers = {}
  /\ Len(inFlight) = 1
  /\ inFlight[1].q = searchQuery

\* C28 (as stated): while the query is shorter than 2 characters suggestions
\* is empty, whatever requests were in flight when the query was shortened.
C28_ShortQueryNoSuggestions ==
  Len(searchQuery) < 2 => suggestions = <<>>

\* C29 (as stated): isLoading is true whenever a debounce timer is pending or
\* a request for the current query is in flight.
C29_LoadingWhileOutstanding ==
  (timers # {} \/ \E i \in DOMAIN inFlight : inFlight[i].q = searchQuery)
    => acIsLoading

(***************************************************************************)
(* Claims about safeParseArray                                             *)
(***************************************************************************)

\* The three tiers as the specification words them, for a field that is
\* absent, a string or an array.
ThreeTiers(v) ==
  IF v.t = "arr" THEN FilterStrings(v.a)
  ELSE IF v.t = "str" /\ v.s # <<>>
  THEN LET parsed == JSONParse(v.s) IN
       IF parsed.ok /\ parsed.v.t = "arr" THEN FilterStrings(parsed.v.a)
       ELSE SplitTrimFilter(v.s)
  ELSE <<>>

\* The token is a JSON object whose race and interest fields are each
\* absent, a string or an array, and it has been decoded.
DecodedTypedToken ==
  /\ profile # NoProfile
  /\ dataParam.json
  /\ dataParam.v.t = "obj"
  /\ Member(dataParam.v, "race").t \in {"undefined", "str", "arr"}
  /\ Member(dataParam.v, "interest").t \in {"undefined", "str", "arr"}

\* C23 (as stated): safeParseArray decodes a multi-value field by three
\* tiers: an array yields its string elements, a string that JSON-parses to
\* an array yields that array's string elements, any other non-empty string
\* yields its trimmed non-empty comma-separated pieces, and an absent or
\* empty field yields the empty list; the decoded profile has the key with
\* a list value and decoding does not fail.
C23_ThreeTiers ==
  DecodedTypedToken =>
    /\ profile.kind = "profile"
    /\ profile.p.race = ThreeTiers(Member(dataParam.v, "race"))
    /\ profile.p.interests = ThreeTiers(Member(dataParam.v, "interest"))

\* C26 (as stated): for every string input safeParseArray finishes after a
\* bounded number of recursive calls and is never called again with a value
\* it has already been called with: the arguments of its nested calls are
\* pairwise different and the recursion ends before the stack does.
C26_NoRepeatedCall ==
  (profile # NoProfile /\ dataParam.json) =>
    \A key \in {"race", "interest"} :
      Member(dataParam.v, key).t = "str" =>
        LET calls == SafeParseArrayCalls(Member(dataParam.v, key), StackDepth) IN
          /\ Len(calls) < StackDepth
          /\ \A i, j \in DOMAIN calls : calls[i] = calls[j] => i = j

(***************************************************************************)
(* Claims about extractGeminiText                                          *)
(***************************************************************************)

\* The texts of the parts one after the other, nothing between them.
RECURSIVE ConcatParts(_)
ConcatParts(parts) ==
  IF parts = <<>> THEN <<>>
  ELSE (IF Head(parts).hasText THEN Head(parts).text ELSE <<>>)
         \o ConcatParts(Tail(parts))

\* The trimmed concatenation of the first candidate that has a non-empty
\* one; the empty sequence when there is none.
RECURSIVE FirstConcatenation(_)
FirstConcatenation(candidates) ==
  IF candidates = <<>> THEN <<>>
  ELSE LET text == IF Head(candidates).hasParts
                   THEN Trim(ConcatParts(Head(candidates).parts)) ELSE <<>>
       IN IF text # <<>> THEN text ELSE FirstConcatenation(Tail(candidates))

\* C24 (as stated): extractGeminiText returns the concatenation, in order
\* and with nothing inserted between parts, of the texts of the first
\* candidate whose trimmed concatenation is non-empty, and null when there
\* is no such candidate.
C24_ExtractConcatenatesParts ==
  (req.route # "none" /\ req.up.kind = "ok") =>
    extractGeminiText(req.up.candidates) = FirstConcatenation(req.up.candidates)

(***************************************************************************)
(* Claims about the fallbackUsed flag                                      *)
(***************************************************************************)

\* C27: every response of the job-search route that carries fallbackUsed
\* has it false, also when the hardcoded listings are served, so the
\* results view, given any 200 response of the route, does not take the
\* branch that sets the "nearby cities" message.
C27_FallbackUsedAlwaysFalse ==
  req.route = "search" =>
    /\ resp.fallbackUsed \in {"false", "absent"}
    /\ resp.kind = "jobs" => resp.fallbackUsed = "false"
    /\ resp.status = 200 =>
         JobsMessage(resp.fallbackUsed = "true", Len(resp.jobs)) # "nearby"

C27_Witness_HardcodedServed ==
  /\ req.route = "search"
  /\ resp.status = 200
  /\ resp.served = "hardcoded"
  /\ Len(resp.jobs) > 0
  /\ resp.fallbackUsed = "false"

(***************************************************************************)
(* Claims about the submission of the form                                 *)
(***************************************************************************)

\* C30 (as stated): every submission that passes validation eventually
\* navigates to the results view with a token, whatever the name and the
\* location, and the form never stays loading without navigating; a
\* submission that fails validation never sets isLoading and never
\* navigates.
C30_ValidSubmissionNavigates ==
  /\ (formPc = "waiting") ~> (formPc = "navigated" /\ origin = "form")
  /\ [](formPc = "editing" => ~formIsLoading)
  /\ [][(formPc = "editing" /\ validateForm # {}) =>
          (origin' = "form" => origin = "form") /\ ~formIsLoading']_vars

====
